---- MODULE Spec2Model ----
(***************************************************************************)
(* A state-machine model of distributed/scheduler.py: the Scheduler's      *)
(* graph state, its event handlers (update_graph, mark_*, add_worker,      *)
(* remove_worker, release_held_data, ...), the per-worker dispatcher       *)
(* coroutines, and the pure helpers decide_worker, update_state, heal,     *)
(* heal_missing_data, assign_many_tasks and validate_state.                *)
(*                                                                         *)
(* A handler is modelled as an operator from a state record to a state     *)
(* record.  The field err holds the exception a handler has raised; once   *)
(* it is set the remaining statements of the handler are skipped, so the   *)
(* record holds the state exactly as the exception left it.                *)
(***************************************************************************)
EXTENDS Naturals, Integers, Sequences, FiniteSets, TLC

(***************************************************************************)
(* Universe and bounds                                                      *)
(***************************************************************************)
Keys == {"x", "y", "z"}

Workers == {"A", "B"}

\* bound on the ncores a worker registers with
MaxCores == 2

\* bound on the number of register (add_worker) events
MaxRegister == 2

\* bound on the number of update-graph events
MaxUpdateGraph == 1

\* bound on the number of update-data events
MaxUpdateData == 1

\* bound on the number of faults: missing-data reports, unregister events
\* and stream errors
MaxFaults == 1

\* bound on the number of keys a worker holds when it registers
MaxHeldKeys == 1

NoErr == ""

(***************************************************************************)
(* Python dict / defaultdict helpers                                        *)
(***************************************************************************)
Has(f, k) == k \in DOMAIN f

Put(f, k, v) == [a \in (DOMAIN f) \cup {k} |-> IF a = k THEN v ELSE f[a]]

Del(f, k) == [a \in (DOMAIN f) \ {k} |-> f[a]]

\* dict.get(k, default)
GetOr(f, k, d) == IF k \in DOMAIN f THEN f[k] ELSE d

\* the entries a defaultdict(set) holds after every key of ks was looked up
Touch(f, ks) == [a \in (DOMAIN f) \cup ks |-> IF a \in DOMAIN f THEN f[a] ELSE {}]

EmptyMap == [a \in {} |-> {}]

Range(q) == {q[i] : i \in 1..Len(q)}

\* list.remove(k): the first occurrence
RECURSIVE SeqRemove(_, _)
SeqRemove(q, k) ==
    IF q = <<>> THEN <<>>
    ELSE IF Head(q) = k THEN Tail(q)
    ELSE <<Head(q)>> \o SeqRemove(Tail(q), k)

\* the elements of sequence q that lie in set S, order kept
RECURSIVE SeqFilter(_, _)
SeqFilter(q, S) ==
    IF q = <<>> THEN <<>>
    ELSE IF Head(q) \in S THEN <<Head(q)>> \o SeqFilter(Tail(q), S)
    ELSE SeqFilter(Tail(q), S)

Reverse(q) == [i \in 1..Len(q) |-> q[Len(q) + 1 - i]]

RECURSIVE SumOver(_, _)
SumOver(f, S) ==
    IF S = {} THEN 0
    ELSE LET a == CHOOSE b \in S : TRUE IN f[a] + SumOver(f, S \ {a})

Min(S) == CHOOSE a \in S : \A b \in S : a <= b

\* the orders in which a set of keys is iterated; a run keeps one order
KeyOrders == {<<"x", "y", "z">>}

\* the orders in which the workers of a dict are iterated
WorkerOrders == {<<"A", "B">>}

(***************************************************************************)
(* Placement policy                                                         *)
(***************************************************************************)
\* a worker address is (host, port); the model runs one worker per host
Host(w) == w

\* first element of the iteration order wo that lies in S
FirstIn(wo, S) == wo[Min({i \in 1..Len(wo) : wo[i] \in S})]

\* decide_worker with restrictions = {} and without line 1066, the selection
\* of the workers with minimal commbytes
decide_worker_free_by_load(deps, stacks, wh, nbytes, wo) ==
    LET holders == UNION {wh[dep] : dep \in deps}
        workers == IF holders = {} THEN DOMAIN stacks ELSE holders
        shortest == Min({Len(stacks[w]) : w \in workers})
    IN  IF workers = {} \/ DOMAIN stacks = {}
        THEN [err |-> "NoWorkers", worker |-> "", who_has |-> wh]
        ELSE IF \E w \in workers, k \in deps : w \notin wh[k] /\ ~Has(nbytes, k)
        THEN [err |-> "KeyError", worker |-> "", who_has |-> wh]
        ELSE IF \E w \in workers : ~Has(stacks, w)
        THEN [err |-> "KeyError", worker |-> "", who_has |-> wh]
        ELSE [err |-> NoErr,
              worker |-> FirstIn(wo, {w \in workers : Len(stacks[w]) = shortest}),
              who_has |-> wh]

\* decide_worker with restrictions = {} and with != for == in line 1066: the
\* workers kept are those whose commbytes is not minimal
decide_worker_free_not_minimal(deps, stacks, wh, nbytes, wo) ==
    LET holders == UNION {wh[dep] : dep \in deps}
        workers == IF holders = {} THEN DOMAIN stacks ELSE holders
        commbytes == [w \in workers |->
                        SumOver(nbytes, {k \in deps : w \notin wh[k]})]
        minbytes == Min({commbytes[w] : w \in workers})
        best == {w \in workers : commbytes[w] # minbytes}
        shortest == Min({Len(stacks[w]) : w \in best})
    IN  IF workers = {} \/ DOMAIN stacks = {}
        THEN [err |-> "NoWorkers", worker |-> "", who_has |-> wh]
        ELSE IF \E w \in workers, k \in deps : w \notin wh[k] /\ ~Has(nbytes, k)
        THEN [err |-> "KeyError", worker |-> "", who_has |-> wh]
        ELSE IF best = {}
        THEN [err |-> "ValueError", worker |-> "", who_has |-> wh]
        ELSE IF \E w \in best : ~Has(stacks, w)
        THEN [err |-> "KeyError", worker |-> "", who_has |-> wh]
        ELSE [err |-> NoErr,
              worker |-> FirstIn(wo, {w \in best : Len(stacks[w]) = shortest}),
              who_has |-> wh]

\* decide_worker with restrictions = {} : lines 1041-1045 and 1057-1068
decide_worker_free(deps, stacks, wh, nbytes, wo) ==
    LET holders == UNION {wh[dep] : dep \in deps}
        workers == IF holders = {} THEN DOMAIN stacks ELSE holders
        commbytes == [w \in workers |->
                        SumOver(nbytes, {k \in deps : w \notin wh[k]})]
        minbytes == Min({commbytes[w] : w \in workers})
        best == {w \in workers : commbytes[w] = minbytes}
        shortest == Min({Len(stacks[w]) : w \in best})
    IN  IF workers = {} \/ DOMAIN stacks = {}
        THEN [err |-> "NoWorkers", worker |-> "", who_has |-> wh]
        ELSE IF \E w \in workers, k \in deps : w \notin wh[k] /\ ~Has(nbytes, k)
        THEN [err |-> "KeyError", worker |-> "", who_has |-> wh]
        ELSE IF \E w \in best : ~Has(stacks, w)
        THEN [err |-> "KeyError", worker |-> "", who_has |-> wh]
        ELSE [err |-> NoErr,
              worker |-> FirstIn(wo, {w \in best : Len(stacks[w]) = shortest}),
              who_has |-> wh]

\* decide_worker with key in restrictions: lines 1046-1068
decide_worker_restricted(deps, stacks, wh, r, loose, nbytes, wo) ==
    LET holders == UNION {wh[dep] : dep \in deps}
        workers0 == IF holders = {} THEN DOMAIN stacks ELSE holders
        allowed0 == {w \in workers0 : Host(w) \in r}
        allowed == IF allowed0 # {} THEN allowed0
                   ELSE {w \in DOMAIN stacks : Host(w) \in r}
        commbytes == [w \in allowed |->
                        SumOver(nbytes, {k \in deps : w \notin wh[k]})]
        minbytes == Min({commbytes[w] : w \in allowed})
        best == {w \in allowed : commbytes[w] = minbytes}
        shortest == Min({Len(stacks[w]) : w \in best})
    IN  IF allowed = {}
        THEN IF loose
             THEN decide_worker_free(deps, stacks, wh, nbytes, wo)
             ELSE [err |-> "NoValidWorker", worker |-> "", who_has |-> wh]
        ELSE IF DOMAIN stacks = {}
        THEN [err |-> "NoWorkers", worker |-> "", who_has |-> wh]
        ELSE IF \E w \in allowed, k \in deps : w \notin wh[k] /\ ~Has(nbytes, k)
        THEN [err |-> "KeyError", worker |-> "", who_has |-> wh]
        ELSE IF \E w \in best : ~Has(stacks, w)
        THEN [err |-> "KeyError", worker |-> "", who_has |-> wh]
        ELSE [err |-> NoErr,
              worker |-> FirstIn(wo, {w \in best : Len(stacks[w]) = shortest}),
              who_has |-> wh]

\* decide_worker without lines 1046-1056, the restrictions
decide_worker_unrestricted(dependencies, stacks, who_has, restrictions, loose_restrictions, nbytes, key, wo) ==
    decide_worker_free(dependencies[key], stacks, Touch(who_has, dependencies[key]), nbytes, wo)

\* decide_worker: the worker that should take task key.  who_has is a
\* defaultdict, so looking up who_has[dep] leaves an entry for every dep.
decide_worker(dependencies, stacks, who_has, restrictions, loose_restrictions, nbytes, key, wo) ==
    LET deps == dependencies[key]
        wh == Touch(who_has, deps)
    IN  IF Has(restrictions, key)
        THEN decide_worker_restricted(deps, stacks, wh, restrictions[key],
                                      key \in loose_restrictions, nbytes, wo)
        ELSE decide_worker_free(deps, stacks, wh, nbytes, wo)

(***************************************************************************)
(* Graph admission helpers                                                  *)
(***************************************************************************)
\* keys_outside_frontier: the traversal stack starts at keys - frontier and
\* follows dependencies, skipping what is in result or in frontier
RECURSIVE keys_outside_frontier(_, _, _, _)
keys_outside_frontier(dependencies, stack, frontier, result) ==
    LET todo == (stack \ result) \ frontier
    IN  IF todo = {} THEN result
        ELSE keys_outside_frontier(dependencies,
                 UNION {GetOr(dependencies, a, {}) : a \in todo},
                 frontier, result \cup todo)

\* in memory as update_state reads it: d in who_has and who_has[d]
Resident(who_has, d) == Has(who_has, d) /\ who_has[d] # {}

RECURSIVE AddDependents(_, _, _)
AddDependents(dependents, deps, key) ==
    IF deps = {} THEN dependents
    ELSE LET d == CHOOSE a \in deps : TRUE
         IN AddDependents(Put(dependents, d, GetOr(dependents, d, {}) \cup {key}),
                          deps \ {d}, key)

(***************************************************************************)
(* Scheduler state transitions.  s is the record of the Scheduler's fields, *)
(* s.out the messages the running handler has emitted so far (reports to    *)
(* the report channels and puts on worker queues, in order), s.err the      *)
(* exception it has raised.                                                 *)
(***************************************************************************)
Raise(s, e) == [s EXCEPT !.err = e]

\* report with no report channel to write to
report_dropped(s, op, key) == s

\* Scheduler.report
report(s, op, key) == [s EXCEPT !.out = Append(@, <<op, key, "">>)]

\* a mutation of ensure_occupied that takes the oldest key of the stack
RECURSIVE ensure_occupied_fifo(_, _)
ensure_occupied_fifo(s, worker) ==
    IF s.err # NoErr THEN s
    ELSE IF ~Has(s.stacks, worker) THEN Raise(s, "KeyError:ensure_occupied")
    ELSE IF s.stacks[worker] = <<>> THEN s
    ELSE IF ~(Has(s.ncores, worker) /\ Has(s.processing, worker))
    THEN Raise(s, "KeyError:ensure_occupied")
    ELSE IF ~(s.ncores[worker] > Cardinality(s.processing[worker])) THEN s
    ELSE LET st == s.stacks[worker]
             key == st[1]
             s1 == [s EXCEPT !.stacks[worker] = Tail(st),
                             !.processing[worker] = @ \cup {key}]
         IN  IF ~(key \in s.dask /\ Has(s.dependencies, key) /\ Has(s.worker_queues, worker))
             THEN Raise(s1, "KeyError:ensure_occupied")
             ELSE ensure_occupied_fifo(
                    [s1 EXCEPT !.who_has = Touch(@, s.dependencies[key]),
                               !.worker_queues[worker] = Append(@, <<"compute-task", key>>),
                               !.out = Append(@, <<"compute-task", key, worker>>)],
                    worker)

\* Scheduler.ensure_occupied
RECURSIVE ensure_occupied(_, _)
ensure_occupied(s, worker) ==
    IF s.err # NoErr THEN s
    ELSE IF ~Has(s.stacks, worker) THEN Raise(s, "KeyError:ensure_occupied")
    ELSE IF s.stacks[worker] = <<>> THEN s
    ELSE IF ~(Has(s.ncores, worker) /\ Has(s.processing, worker))
    THEN Raise(s, "KeyError:ensure_occupied")
    ELSE IF ~(s.ncores[worker] > Cardinality(s.processing[worker])) THEN s
    ELSE LET st == s.stacks[worker]
             key == st[Len(st)]
             s1 == [s EXCEPT !.stacks[worker] = SubSeq(st, 1, Len(st) - 1),
                             !.processing[worker] = @ \cup {key}]
         IN  IF ~(key \in s.dask /\ Has(s.dependencies, key) /\ Has(s.worker_queues, worker))
             THEN Raise(s1, "KeyError:ensure_occupied")
             ELSE ensure_occupied(
                    [s1 EXCEPT !.who_has = Touch(@, s.dependencies[key]),
                               !.worker_queues[worker] = Append(@, <<"compute-task", key>>),
                               !.out = Append(@, <<"compute-task", key, worker>>)],
                    worker)

\* Scheduler.mark_ready_to_run
mark_ready_to_run(s, key, wo) ==
    IF s.err # NoErr THEN s
    ELSE IF Has(s.waiting, key) /\ s.waiting[key] # {}
    THEN Raise(s, "AssertionError:mark_ready_to_run")
    ELSE IF ~Has(s.dependencies, key) THEN Raise(s, "KeyError:decide_worker")
    ELSE LET place(s1, dw) ==
                 IF dw.err # NoErr THEN Raise([s1 EXCEPT !.who_has = dw.who_has], dw.err)
                 ELSE ensure_occupied(
                        [s1 EXCEPT !.who_has = dw.who_has,
                                   !.stacks[dw.worker] = Append(@, key)], dw.worker)
         IN  place([s EXCEPT !.waiting = Del(@, key)],
                   decide_worker(s.dependencies, s.stacks, s.who_has, s.restrictions,
                                 s.loose_restrictions, s.nbytes, key, wo))

\* delete_one without line 839, has_what[worker].remove(key)
delete_one_keeping_has_what(s, key) ==
    [s EXCEPT !.who_has = Del(@, key),
              !.waiting_data = Del(@, key),
              !.in_play = @ \ {key}]

\* the body of delete_data's loop for one key
delete_one(s, key) ==
    LET holders == GetOr(s.who_has, key, {})
    IN  IF \E w \in holders : key \notin GetOr(s.has_what, w, {})
        THEN Raise([s EXCEPT !.who_has = Touch(@, {key}),
                             !.has_what = Touch(@, holders)],
                   "KeyError:delete_data")
        ELSE [s EXCEPT
                !.has_what = [w \in DOMAIN @ |->
                                 IF w \in holders THEN @[w] \ {key} ELSE @[w]],
                !.deleted_keys = [w \in (DOMAIN @) \cup holders |->
                                 IF w \in holders THEN GetOr(@, w, {}) \cup {key}
                                 ELSE @[w]],
                !.who_has = Del(@, key),
                !.waiting_data = Del(@, key),
                !.in_play = @ \ {key}]

\* Scheduler.delete_data
RECURSIVE delete_data(_, _)
delete_data(s, keys) ==
    IF s.err # NoErr \/ keys = {} THEN s
    ELSE LET key == CHOOSE k \in keys : TRUE
         IN delete_data(delete_one(s, key), keys \ {key})

Pos(q, a) == CHOOSE i \in 1..Len(q) : q[i] = a

\* keyorder.get(k): a key without keyorder sorts below every tuple
OrderOf(keyorder, k) == GetOr(keyorder, k, <<-1, -1>>)

TupleLess(a, b) == a[1] < b[1] \/ (a[1] = b[1] /\ a[2] < b[2])

\* sorted(S, key=keyorder.get, reverse=True): a stable sort of the set's
\* iteration order ko
RECURSIVE SortedDescending(_, _, _)
SortedDescending(S, keyorder, ko) ==
    IF S = {} THEN <<>>
    ELSE LET top == CHOOSE a \in S : \A b \in S \ {a} :
                        \/ TupleLess(OrderOf(keyorder, b), OrderOf(keyorder, a))
                        \/ /\ OrderOf(keyorder, b) = OrderOf(keyorder, a)
                           /\ Pos(ko, a) < Pos(ko, b)
         IN <<top>> \o SortedDescending(S \ {top}, keyorder, ko)

\* sorted(q, key=keyorder.get): a stable sort of the list q
RECURSIVE SortedAscending(_, _)
SortedAscending(q, keyorder) ==
    IF q = <<>> THEN <<>>
    ELSE LET i == CHOOSE a \in 1..Len(q) : \A b \in (1..Len(q)) \ {a} :
                      \/ TupleLess(OrderOf(keyorder, q[a]), OrderOf(keyorder, q[b]))
                      \/ /\ OrderOf(keyorder, q[a]) = OrderOf(keyorder, q[b])
                         /\ a < b
         IN <<q[i]>> \o SortedAscending(SubSeq(q, 1, i - 1) \o SubSeq(q, i + 1, Len(q)), keyorder)

\* mark_key_in_memory, lines 350-357: the dependents of key, highest
\* keyorder first
RECURSIVE release_dependents(_, _, _, _)
release_dependents(s, key, q, wo) ==
    IF s.err # NoErr \/ q = <<>> THEN s
    ELSE LET dep == Head(q)
         IN  IF ~Has(s.waiting, dep)
             THEN release_dependents(s, key, Tail(q), wo)
             ELSE LET s1 == [s EXCEPT !.waiting[dep] = @ \ {key}]
                  IN  IF s1.waiting[dep] = {}
                      THEN release_dependents(mark_ready_to_run(s1, dep, wo), key, Tail(q), wo)
                      ELSE release_dependents(s1, key, Tail(q), wo)

\* lines 359-365 without the test dep not in self.held_data of line 364
RECURSIVE release_dependencies_held_too(_, _, _)
release_dependencies_held_too(s, key, deps) ==
    IF s.err # NoErr \/ deps = {} THEN s
    ELSE LET dep == CHOOSE d \in deps : TRUE
         IN  IF ~Has(s.waiting_data, dep)
             THEN release_dependencies_held_too(s, key, deps \ {dep})
             ELSE LET s1 == [s EXCEPT !.waiting_data[dep] = @ \ {key}]
                  IN  IF s1.waiting_data[dep] = {}
                      THEN release_dependencies_held_too(delete_data(s1, {dep}), key, deps \ {dep})
                      ELSE release_dependencies_held_too(s1, key, deps \ {dep})

\* mark_key_in_memory, lines 359-365: the dependencies of key
RECURSIVE release_dependencies(_, _, _)
release_dependencies(s, key, deps) ==
    IF s.err # NoErr \/ deps = {} THEN s
    ELSE LET dep == CHOOSE d \in deps : TRUE
         IN  IF ~Has(s.waiting_data, dep)
             THEN release_dependencies(s, key, deps \ {dep})
             ELSE LET s1 == [s EXCEPT !.waiting_data[dep] = @ \ {key}]
                  IN  IF s1.waiting_data[dep] = {} /\ dep \notin s1.held_data
                      THEN release_dependencies(delete_data(s1, {dep}), key, deps \ {dep})
                      ELSE release_dependencies(s1, key, deps \ {dep})

\* Scheduler.mark_key_in_memory(key, workers)
mark_key_in_memory(s, key, workers, ko, wo) ==
    IF s.err # NoErr THEN s
    ELSE LET s1 == IF workers = {} THEN s
                   ELSE [s EXCEPT
                           !.who_has = Put(@, key, GetOr(@, key, {}) \cup workers),
                           !.has_what = [w \in (DOMAIN @) \cup workers |->
                                           IF w \in workers THEN GetOr(@, w, {}) \cup {key}
                                           ELSE @[w]],
                           !.processing = [w \in DOMAIN @ |->
                                           IF w \in workers THEN @[w] \ {key} ELSE @[w]]]
             \* lines 350-357, 359-365, 367
             dependents_of(s2) == release_dependents(s2, key,
                       SortedDescending(GetOr(s2.dependents, key, {}), s2.keyorder, ko), wo)
             dependencies_of(s3) == release_dependencies(s3, key, GetOr(s3.dependencies, key, {}))
             tell(s4) == IF s4.err # NoErr THEN s4 ELSE report(s4, "key-in-memory", key)
         IN  tell(dependencies_of(dependents_of(s1)))

\* Scheduler.mark_key_in_memory(key), workers = None: workers = self.who_has[key]
mark_key_in_memory_own(s, key, ko, wo) ==
    IF s.err # NoErr THEN s
    ELSE mark_key_in_memory([s EXCEPT !.who_has = Touch(@, {key})], key, GetOr(s.who_has, key, {}), ko, wo)

\* Scheduler.mark_failed; q lists the keys still to be visited, depth first
RECURSIVE mark_failed(_, _, _, _)
mark_failed(s, q, failing_key, ko) ==
    IF s.err # NoErr \/ q = <<>> THEN s
    ELSE LET key == Head(q)
         IN  IF Has(s.exceptions_blame, key)
             THEN mark_failed(s, Tail(q), failing_key, ko)
             ELSE IF failing_key \notin s.exceptions
             THEN Raise([s EXCEPT !.exceptions_blame = Put(@, key, failing_key)],
                        "KeyError:mark_failed")
             ELSE LET s1 == report([s EXCEPT !.exceptions_blame = Put(@, key, failing_key)],
                                   "task-erred", key)
                      s2 == [s1 EXCEPT !.waiting = Del(@, key),
                                       !.waiting_data = Del(@, key)]
                  IN  IF key \notin s2.in_play
                      THEN Raise(s2, "KeyError:mark_failed")
                      ELSE IF ~Has(s2.dependents, key)
                      THEN Raise([s2 EXCEPT !.in_play = @ \ {key}], "KeyError:mark_failed")
                      ELSE mark_failed([s2 EXCEPT !.in_play = @ \ {key}],
                                       SeqFilter(ko, s2.dependents[key]) \o Tail(q),
                                       failing_key, ko)

\* Scheduler.mark_task_erred (no plugin is registered)
mark_task_erred(s, key, worker, ko) ==
    IF ~Has(s.processing, worker) THEN Raise(s, "KeyError:mark_task_erred")
    ELSE IF key \notin s.processing[worker] THEN s
    ELSE ensure_occupied(
            mark_failed([s EXCEPT !.processing[worker] = @ \ {key},
                                  !.exceptions = @ \cup {key}],
                        <<key>>, key, ko),
            worker)

\* mark_task_finished without the test of line 465
mark_task_finished_unguarded(s, key, worker, nbytes, ko, wo) ==
    IF ~Has(s.processing, worker) THEN Raise(s, "KeyError:mark_task_finished")
    ELSE ensure_occupied(
            mark_key_in_memory([s EXCEPT !.nbytes = Put(@, key, nbytes)],
                               key, {worker}, ko, wo),
            worker)

\* Scheduler.mark_task_finished (no plugin is registered)
mark_task_finished(s, key, worker, nbytes, ko, wo) ==
    IF ~Has(s.processing, worker) THEN Raise(s, "KeyError:mark_task_finished")
    ELSE IF key \notin s.processing[worker] THEN s
    ELSE ensure_occupied(
            mark_key_in_memory([s EXCEPT !.nbytes = Put(@, key, nbytes)],
                               key, {worker}, ko, wo),
            worker)

(***************************************************************************)
(* heal_missing_data                                                        *)
(***************************************************************************)
\* ensure_key, with in_memory the who_has dict (membership is key presence)
RECURSIVE ensure_key(_, _)
RECURSIVE ensure_deps(_, _, _)
ensure_key(s, key) ==
    IF s.err # NoErr \/ key \in s.in_play THEN s
    ELSE IF ~Has(s.dependencies, key) THEN Raise(s, "KeyError:heal_missing_data")
    ELSE LET s1 == ensure_deps(s, key, s.dependencies[key])
         IN  IF s1.err # NoErr THEN s1
             ELSE IF ~Has(s1.dependents, key)
             THEN Raise([s1 EXCEPT !.waiting = Put(@, key,
                             {dep \in s.dependencies[key] : ~Has(s1.who_has, dep)})],
                        "KeyError:heal_missing_data")
             ELSE [s1 EXCEPT
                     !.waiting = Put(@, key,
                             {dep \in s.dependencies[key] : ~Has(s1.who_has, dep)}),
                     !.waiting_data = Put(@, key,
                             {dep \in s1.dependents[key] :
                                 dep \in s1.in_play /\ ~Has(s1.who_has, dep)}),
                     !.in_play = @ \cup {key}]

ensure_deps(s, key, deps) ==
    IF s.err # NoErr \/ deps = {} THEN s
    ELSE LET dep == CHOOSE d \in deps : TRUE
             s1 == ensure_key(s, dep)
         IN  IF s1.err # NoErr THEN s1
             ELSE IF ~Has(s1.waiting_data, dep)
             THEN Raise(s1, "KeyError:heal_missing_data")
             ELSE ensure_deps([s1 EXCEPT !.waiting_data[dep] = @ \cup {key}],
                              key, deps \ {dep})

RECURSIVE ensure_keys(_, _)
ensure_keys(s, q) ==
    IF s.err # NoErr \/ q = <<>> THEN s
    ELSE ensure_keys(ensure_key(s, Head(q)), Tail(q))

\* heal_missing_data on the Scheduler's fields (Scheduler.my_heal_missing_data)
heal_missing_data(s, missing, ko) ==
    IF s.err # NoErr THEN s
    ELSE ensure_keys([s EXCEPT !.in_play = @ \ missing], SeqFilter(ko, missing))

(***************************************************************************)
(* Bulk seeding                                                             *)
(***************************************************************************)
\* the _round_robin counter is only read modulo the number of workers, so it
\* is kept modulo a common multiple of the possible worker counts
RoundRobinPeriod == CHOOSE n \in 1..100 : /\ \A m \in 1..Cardinality(Workers) : n % m = 0
                                          /\ \A n2 \in 1..(n - 1) : \E m \in 1..Cardinality(Workers) : n2 % m # 0

Ceil(a, b) == (a + b - 1) \div b

\* leaves[i*k : (i+1)*k][::-1], i counted from 0
Chunk(leaves, i, k) ==
    LET lo == i * k + 1
        hi == IF (i + 1) * k < Len(leaves) THEN (i + 1) * k ELSE Len(leaves)
    IN  IF lo > hi THEN <<>> ELSE Reverse(SubSeq(leaves, lo, hi))

\* assign_many_tasks, lines 1357-1361: the ready keys, one by one
RECURSIVE assign_ready(_, _, _)
assign_ready(s, ready, wo) ==
    IF s.err # NoErr \/ ready = <<>> THEN s
    ELSE LET key == Head(ready)
             place(dw) ==
                 IF dw.err # NoErr THEN Raise([s EXCEPT !.who_has = dw.who_has], dw.err)
                 ELSE assign_ready([s EXCEPT !.who_has = dw.who_has,
                                             !.stacks[dw.worker] = Append(@, key),
                                             !.ret = Put(@, dw.worker, GetOr(@, dw.worker, <<>>) \o <<key>>)],
                                   Tail(ready), wo)
         IN  place(decide_worker(s.dependencies, s.stacks, s.who_has, s.restrictions,
                                 s.loose_restrictions, s.nbytes, key, wo))

\* a mutation of assign_many_tasks that always starts with the first worker
assign_many_tasks_unrotated(s, keys, wo) ==
    IF s.err # NoErr THEN s
    ELSE LET isleaf(k) == s.dependencies[k] = {} /\ ~Has(s.restrictions, k)
             leaves0 == SeqFilter(keys, {k \in Range(keys) : isleaf(k)})
             ready == SeqFilter(keys, {k \in Range(keys) : ~isleaf(k)})
             s1 == [s EXCEPT !.waiting = [k \in (DOMAIN @) \ Range(keys) |-> @[k]],
                             !.ret = [w \in {} |-> <<>>]]
             leaves == SortedAscending(leaves0, s.keyorder)
             workers == SeqFilter(wo, DOMAIN s.stacks)
             n == Len(workers)
             k == Ceil(Len(leaves), n)
             s2 == [s1 EXCEPT
                      !.round_robin = (@ + 1) % RoundRobinPeriod,
                      !.ret = [w \in DOMAIN s.stacks |-> Chunk(leaves, Pos(workers, w) - 1, k)],
                      !.stacks = [w \in DOMAIN @ |-> @[w] \o Chunk(leaves, Pos(workers, w) - 1, k)]]
         IN  IF DOMAIN s.stacks = {} THEN Raise(s1, "NoWorkers")
             ELSE assign_ready(s2, ready, wo)

\* assign_many_tasks on the Scheduler's fields; keys is the list passed in,
\* new_stacks is left in s.ret
assign_many_tasks(s, keys, wo) ==
    IF s.err # NoErr THEN s
    ELSE LET isleaf(k) == s.dependencies[k] = {} /\ ~Has(s.restrictions, k)
             leaves0 == SeqFilter(keys, {k \in Range(keys) : isleaf(k)})
             ready == SeqFilter(keys, {k \in Range(keys) : ~isleaf(k)})
             s1 == [s EXCEPT !.waiting = [k \in (DOMAIN @) \ Range(keys) |-> @[k]],
                             !.ret = [w \in {} |-> <<>>]]
             leaves == SortedAscending(leaves0, s.keyorder)
             workers0 == SeqFilter(wo, DOMAIN s.stacks)
             n == Len(workers0)
             r == s.round_robin % n
             workers == SubSeq(workers0, r + 1, n) \o SubSeq(workers0, 1, r)
             k == Ceil(Len(leaves), n)
             s2 == [s1 EXCEPT
                      !.round_robin = (@ + 1) % RoundRobinPeriod,
                      !.ret = [w \in DOMAIN s.stacks |-> Chunk(leaves, Pos(workers, w) - 1, k)],
                      !.stacks = [w \in DOMAIN @ |-> @[w] \o Chunk(leaves, Pos(workers, w) - 1, k)]]
         IN  IF DOMAIN s.stacks = {} THEN Raise(s1, "NoWorkers")
             ELSE assign_ready(s2, ready, wo)

RECURSIVE occupy_all(_, _)
occupy_all(s, q) ==
    IF s.err # NoErr \/ q = <<>> THEN s
    ELSE occupy_all(ensure_occupied(s, Head(q)), Tail(q))

\* Scheduler.seed_ready_tasks(keys)
seed_ready_tasks(s, keys, ko, wo) ==
    IF s.err # NoErr THEN s
    ELSE LET ready == SeqFilter(ko, {k \in keys : Has(s.waiting, k) /\ s.waiting[k] = {}})
             occupy(s1) == occupy_all(s1, SeqFilter(wo, {w \in DOMAIN s1.ret : s1.ret[w] # <<>>}))
         IN  occupy(assign_many_tasks(s, ready, wo))

\* Scheduler.mark_missing_data(missing, key, worker); key = "" stands for the
\* call without key and worker.  The loop variable of lines 490-491 is named
\* worker too, so after the loop worker is the last holder iterated over.
mark_missing_data(s, missing, key, worker, ko, wo) ==
    LET popped == {k \in missing : Has(s.who_has, k)}
        held == {k \in popped : s.who_has[k] # {}}
        lastk == LET q == SeqFilter(ko, held) IN q[Len(q)]
        worker2 == IF held = {} THEN worker
                   ELSE LET q == SeqFilter(wo, s.who_has[lastk]) IN q[Len(q)]
        touched == UNION {s.who_has[k] : k \in popped}
        s1 == [s EXCEPT
                 !.has_what = [w \in (DOMAIN @) \cup touched |->
                                 GetOr(@, w, {}) \ {k \in popped : w \in s.who_has[k]}],
                 !.who_has = [k \in (DOMAIN @) \ missing |-> @[k]]]
        \* lines 496-499, 501
        retry(s2) == IF key = "" \/ s2.err # NoErr THEN s2
                     ELSE ensure_occupied(
                            [s2 EXCEPT !.processing = [w \in DOMAIN @ |->
                                            IF w = worker2 THEN @[w] \ {key} ELSE @[w]],
                                       !.waiting = Put(@, key, missing)],
                            worker2)
        seed(s3) == seed_ready_tasks(s3, s3.dask, ko, wo)
    IN  seed(retry(heal_missing_data(s1, missing, ko)))

(***************************************************************************)
(* validate_state and heal                                                  *)
(***************************************************************************)
InStacks(stacks) == UNION {Range(stacks[w]) : w \in DOMAIN stacks}

InProcessing(processing) == UNION {processing[w] : w \in DOMAIN processing}

Outputs(dependents) == {key \in DOMAIN dependents : dependents[key] = {}}

\* the keys check_key visits: from the outputs down through dependencies
RECURSIVE Below(_, _, _)
Below(dependencies, todo, seen) ==
    IF todo \subseteq seen THEN seen
    ELSE Below(dependencies,
               UNION {GetOr(dependencies, a, {}) : a \in todo \ seen},
               seen \cup todo)

Count(b) == IF b THEN 1 ELSE 0

\* validate_state.check_key without its recursion; v is the state dict
check_key(v, key, allow_overlap) ==
    LET val == Count(Has(v.waiting, key)) + Count(key \in InStacks(v.stacks))
               + Count(key \in InProcessing(v.processing))
               + Count(key \in v.in_memory) + Count(key \in v.released)
    IN  /\ IF allow_overlap THEN val >= 1 ELSE val = 1
        /\ (key \in v.released) # (key \in v.in_play)
        /\ Has(v.dependencies, key)
        /\ key \in v.in_memory =>
              /\ \A dep \in GetOr(v.dependents, key, {}) : key \notin GetOr(v.waiting, dep, {})
              /\ GetOr(v.waiting, key, {}) = {}
        /\ key \in InStacks(v.stacks) \cup InProcessing(v.processing) =>
              /\ \A dep \in v.dependencies[key] : dep \in v.in_memory
              /\ GetOr(v.waiting, key, {}) = {}
        /\ v.check_finished =>
              /\ key \in v.finished_results =>
                    key \in v.in_memory /\ key \in Outputs(v.dependents)
              /\ (key \in Outputs(v.dependents) /\ key \in v.in_memory) =>
                    key \in v.finished_results

\* validate_state with its assertions stripped (python -O)
validate_state_stripped(v, allow_overlap) == TRUE

\* validate_state: TRUE iff no assertion fails (and no lookup raises)
validate_state(v, allow_overlap) ==
    \A key \in Below(v.dependencies, Outputs(v.dependents), {}) :
        check_key(v, key, allow_overlap)

\* heal.make_accessible: the keys visited from the outputs, descending
\* through the dependencies of keys that are not in memory
RECURSIVE Accessible(_, _, _, _)
Accessible(dependencies, in_memory, todo, seen) ==
    IF todo \subseteq seen THEN seen
    ELSE Accessible(dependencies, in_memory,
               UNION {GetOr(dependencies, a, {}) : a \in (todo \ seen) \ in_memory},
               seen \cup todo)

\* stacks[worker].remove(key) for every key of gone found in the stack
RECURSIVE RemoveAll(_, _)
RemoveAll(q, gone) ==
    IF gone = {} THEN q
    ELSE LET k == CHOOSE a \in gone : TRUE
         IN RemoveAll(SeqRemove(q, k), gone \ {k})

\* heal: the output state dict; err is set when heal raises
heal(dependencies, dependents, in_memory, stacks, processing, waiting, waiting_data) ==
    LET outputs == Outputs(dependents)
        accessible == Accessible(dependencies, in_memory, outputs, {})
        new_released == (DOMAIN dependents) \ accessible
        broken == \E key \in accessible \ in_memory : ~Has(dependencies, key)
        waiting1 == [key \in accessible \ in_memory |->
                        {dep \in dependencies[key] : dep \notin in_memory}]
        waiting_data1 == [key \in (DOMAIN dependents) \ new_released |->
                            {dep \in dependents[key] :
                                dep \notin new_released /\ dep \notin in_memory}]
        unrunnable(key) ==
            \/ key \in new_released
            \/ key \in in_memory
            \/ GetOr(waiting1, key, {}) # {}
            \/ ~(\A dep \in dependencies[key] : dep \in in_memory)
        stacks1 == [w \in DOMAIN stacks |->
                      RemoveAll(stacks[w], {k \in Range(stacks[w]) : unrunnable(k)})]
        processing1 == [w \in DOMAIN processing |->
                      {k \in processing[w] : ~unrunnable(k)}]
        running == {k \in InStacks(stacks) \cup InProcessing(processing) : ~unrunnable(k)}
        waiting2 == [key \in (DOMAIN waiting1) \ running |-> waiting1[key]]
        output == [keys |-> outputs,
                   dependencies |-> dependencies, dependents |-> dependents,
                   waiting |-> waiting2, waiting_data |-> waiting_data1,
                   in_memory |-> in_memory, processing |-> processing1,
                   stacks |-> stacks1,
                   finished_results |-> {key \in outputs : key \in in_memory},
                   released |-> new_released,
                   in_play |-> in_memory \cup (DOMAIN waiting2)
                               \cup InProcessing(processing1) \cup InStacks(stacks1),
                   check_finished |-> TRUE,
                   err |-> NoErr]
    IN  IF broken
        THEN [keys |-> outputs, dependencies |-> dependencies, dependents |-> dependents,
              waiting |-> EmptyMap, waiting_data |-> EmptyMap, in_memory |-> in_memory,
              processing |-> processing, stacks |-> stacks, finished_results |-> {},
              released |-> new_released, in_play |-> {}, check_finished |-> TRUE,
              err |-> "KeyError:heal"]
        ELSE IF ~validate_state(output, FALSE)
        THEN [output EXCEPT !.err = "AssertionError:validate_state"]
        ELSE output

(***************************************************************************)
(* Healing and worker lifecycle on the Scheduler                            *)
(***************************************************************************)
RECURSIVE report_all(_, _, _)
report_all(s, op, q) ==
    IF q = <<>> THEN s ELSE report_all(report(s, op, Head(q)), op, Tail(q))

RECURSIVE ready_all(_, _, _)
ready_all(s, q, wo) ==
    IF s.err # NoErr \/ q = <<>> THEN s
    ELSE ready_all(mark_ready_to_run(s, Head(q), wo), Tail(q), wo)

\* Scheduler.heal_state; in_memory is set(self.who_has), every key that has
\* an entry in who_has
heal_state(s, ko, wo) ==
    IF s.err # NoErr THEN s
    ELSE LET \* lines 626-628: the lost-key reports; add_keys is read before them
             lose(s2, released) ==
                 report_all(s2, "lost-key", SeqFilter(ko, s2.held_data \cap released))
             \* lines 629-631
             ready(s3) ==
                 IF DOMAIN s3.stacks # {}
                 THEN ready_all(s3, SeqFilter(ko, {k \in DOMAIN s3.waiting : s3.waiting[k] = {}}), wo)
                 ELSE s3
             \* line 633
             drop(s4, released) ==
                 delete_data(s4, ((DOMAIN s4.who_has) \cap released) \ s4.held_data)
             \* line 634
             update(s5) ==
                 IF s5.err # NoErr THEN s5
                 ELSE [s5 EXCEPT !.in_play = @ \cup DOMAIN s5.who_has]
             \* heal works on the Scheduler's own stacks, processing, waiting
             \* and waiting_data, so they are changed even when it raises
             adopt(state) ==
                 LET s1 == [s EXCEPT !.stacks = state.stacks, !.processing = state.processing,
                                     !.waiting = state.waiting, !.waiting_data = state.waiting_data]
                 IN  IF state.err # NoErr THEN Raise(s1, state.err)
                     ELSE update(drop(ready(lose([s1 EXCEPT !.in_play = state.in_play],
                                                 state.released)),
                                      state.released))
         IN  adopt(heal(s.dependencies, s.dependents, DOMAIN s.who_has, s.stacks,
                        s.processing, s.waiting, s.waiting_data))

\* Scheduler.remove_worker(address, heal)
remove_worker(s, address, withheal, ko, wo) ==
    IF s.err # NoErr \/ ~Has(s.processing, address) THEN s
    ELSE IF ~Has(s.has_what, address) THEN Raise(s, "KeyError:remove_worker")
    ELSE LET keys == s.has_what[address]
             s1 == [s EXCEPT !.has_what = Del(@, address),
                             !.out = Append(@, <<"close", "", address>>),
                             !.worker_queues = Del(@, address),
                             !.ncores = Del(@, address),
                             !.stacks = Del(@, address),
                             !.processing = Del(@, address),
                             !.nannies = @ \ {address}]
             missing_keys == {key \in keys : GetOr(s.who_has, key, {}) \ {address} = {}}
             who_has1 == [key \in (DOMAIN s.who_has) \cup keys |->
                             GetOr(s.who_has, key, {}) \ (IF key \in keys THEN {address} ELSE {})]
             gone_data == {k \in DOMAIN who_has1 : who_has1[k] = {}}
             s2 == [s1 EXCEPT !.who_has = [k \in (DOMAIN who_has1) \ gone_data |-> who_has1[k]],
                              !.in_play = @ \ missing_keys]
         IN  IF ~(Has(s.worker_queues, address) /\ Has(s.ncores, address)
                  /\ Has(s.stacks, address) /\ address \in s.nannies)
             THEN Raise(s, "KeyError:remove_worker")
             ELSE IF \E key \in keys : address \notin GetOr(s.who_has, key, {})
             THEN Raise(s1, "KeyError:remove_worker")
             ELSE IF withheal THEN heal_state(s2, ko, wo) ELSE s2

RECURSIVE register_keys(_, _, _, _, _)
register_keys(s, address, q, ko, wo) ==
    IF s.err # NoErr \/ q = <<>> THEN s
    ELSE register_keys(mark_key_in_memory(s, Head(q), {address}, ko, wo),
                       address, Tail(q), ko, wo)

\* add_worker without line 548, has_what[address] = set()
add_worker_without_has_what(s, address, keys, ncores, ko, wo) ==
    LET s1 == [s EXCEPT !.ncores = Put(@, address, ncores),
                        !.nannies = @ \cup {address}]
        s2 == IF Has(s.processing, address) THEN s1
              ELSE [s1 EXCEPT !.processing = Put(@, address, {}),
                              !.stacks = Put(@, address, <<>>),
                              !.worker_queues = Put(@, address, <<>>)]
    IN  register_keys(s2, address, SeqFilter(ko, keys), ko, wo)

\* Scheduler.add_worker(address, keys, ncores, nanny_port), up to the launch
\* of the worker coroutine (line 555), which the Register action adds
add_worker(s, address, keys, ncores, ko, wo) ==
    LET s1 == [s EXCEPT !.ncores = Put(@, address, ncores),
                        !.nannies = @ \cup {address}]
        s2 == IF Has(s.processing, address) THEN s1
              ELSE [s1 EXCEPT !.has_what = Put(@, address, {}),
                              !.processing = Put(@, address, {}),
                              !.stacks = Put(@, address, <<>>),
                              !.worker_queues = Put(@, address, <<>>)]
    IN  register_keys(s2, address, SeqFilter(ko, keys), ko, wo)

\* Scheduler.release_held_data
release_held_data(s, keys0) ==
    LET keys == keys0 \cap s.held_data
        s1 == [s EXCEPT !.held_data = @ \ keys]
        keys2 == {k \in keys : GetOr(s.waiting_data, k, {}) = {}}
    IN  IF keys = {} THEN s
        ELSE IF keys2 = {} THEN s1
        ELSE delete_data(s1, keys2)

RECURSIVE update_data_keys(_, _, _, _, _)
update_data_keys(s, who_has, q, ko, wo) ==
    IF s.err # NoErr \/ q = <<>> THEN s
    ELSE update_data_keys(mark_key_in_memory(s, Head(q), who_has[Head(q)], ko, wo),
                          who_has, Tail(q), ko, wo)

\* Scheduler.update_data(who_has, nbytes)
update_data(s, who_has, nbytes, ko, wo) ==
    LET hold(s1) ==
            IF s1.err # NoErr THEN s1
            ELSE [s1 EXCEPT !.nbytes = [k \in (DOMAIN @) \cup DOMAIN nbytes |->
                                           IF Has(nbytes, k) THEN nbytes[k] ELSE @[k]],
                            !.held_data = @ \cup DOMAIN who_has,
                            !.in_play = @ \cup DOMAIN who_has]
    IN  hold(update_data_keys(s, who_has, SeqFilter(ko, DOMAIN who_has), ko, wo))

(***************************************************************************)
(* Graph admission.  A task is represented by the set of keys it refers to: *)
(* g[k] is that set for the task of key k, and a graph new_dsk is the set   *)
(* of its keys.                                                             *)
(***************************************************************************)
\* _deps(dsk, task) + _deps(held_data, task): the keys the task refers to
\* that are keys of dsk or held data
TaskDeps(g, dsk, held_data, key) == g[key] \cap (dsk \cup held_data)

\* a mutation of add_dependencies without the test of lines 1084-1085, key
\* in dependencies
RECURSIVE add_dependencies_again(_, _, _)
add_dependencies_again(s, g, todo) ==
    IF todo = {} THEN s
    ELSE LET key == CHOOSE k \in todo : TRUE
             deps == TaskDeps(g, s.dask, s.held_data, key)
             dependents1 == AddDependents(s.dependents, deps, key)
         IN  add_dependencies_again(
                    [s EXCEPT !.dependencies = Put(@, key, deps),
                              !.dependents = Put(dependents1, key, GetOr(dependents1, key, {}))],
                    g, todo \ {key})

RECURSIVE add_dependencies(_, _, _)
add_dependencies(s, g, todo) ==
    IF todo = {} THEN s
    ELSE LET key == CHOOSE k \in todo : TRUE
             deps == TaskDeps(g, s.dask, s.held_data, key)
             dependents1 == AddDependents(s.dependents, deps, key)
         IN  IF Has(s.dependencies, key) THEN add_dependencies(s, g, todo \ {key})
             ELSE add_dependencies(
                    [s EXCEPT !.dependencies = Put(@, key, deps),
                              !.dependents = Put(dependents1, key, GetOr(dependents1, key, {}))],
                    g, todo \ {key})

\* update_state, lines 1101-1110: the waiting and waiting_data of exterior
RECURSIVE add_exterior(_, _)
add_exterior(s, todo) ==
    IF todo = {} THEN s
    ELSE LET key == CHOOSE k \in todo : TRUE
             deps == s.dependencies[key]
             wd1 == [d \in (DOMAIN s.waiting_data) \cup deps |->
                        IF d \in deps THEN GetOr(s.waiting_data, d, {}) \cup {key}
                        ELSE s.waiting_data[d]]
         IN  add_exterior(
                [s EXCEPT !.waiting = Put(@, key, {d \in deps : ~Resident(s.who_has, d)}),
                          !.waiting_data = Put(wd1, key, GetOr(wd1, key, {}))],
                todo \ {key})

\* update_state on the Scheduler's fields
update_state(s, g, new_dsk, new_keys) ==
    LET \* lines 1101-1117
        admit(s1, exterior) ==
            IF \E a \in exterior : ~Has(s1.dependencies, a)
            THEN Raise(s1, "KeyError:keys_outside_frontier")
            ELSE [add_exterior([s1 EXCEPT !.in_play = @ \cup exterior], exterior)
                    EXCEPT !.held_data = @ \cup new_keys]
        \* line 1099
        frontier(s1) ==
            admit(s1, keys_outside_frontier(s1.dependencies, new_keys \ s1.in_play, s1.in_play, {}))
    IN  frontier(add_dependencies([s EXCEPT !.dask = @ \cup new_dsk], g, new_dsk))

\* KeySeq fixes the rank order(dsk) gives the keys of a graph: a topological
\* order of every graph the model admits
KeySeq == <<"x", "y", "z">>

\* order(dsk)[key]
Rank(new_dsk, key) == Cardinality({k \in new_dsk : Pos(KeySeq, k) < Pos(KeySeq, key)})

\* update_graph, lines 591-594: new keys with a failed dependency
RECURSIVE fail_blamed(_, _, _)
fail_blamed(s, pairs, ko) ==
    IF s.err # NoErr \/ pairs = <<>> THEN s
    ELSE LET key == Head(pairs)[1]
             dep == Head(pairs)[2]
         IN  IF Has(s.exceptions_blame, dep)
             THEN fail_blamed(mark_failed(s, <<key>>, s.exceptions_blame[dep], ko), Tail(pairs), ko)
             ELSE fail_blamed(s, Tail(pairs), ko)

\* the pairs (key, dep) in the order the nested loops of 591-592 visit them
RECURSIVE PairsOf(_, _, _)
PairsOf(q, dependencies, ko) ==
    IF q = <<>> THEN <<>>
    ELSE LET deps == SeqFilter(ko, dependencies[Head(q)])
         IN [i \in 1..Len(deps) |-> <<Head(q), deps[i]>>] \o PairsOf(Tail(q), dependencies, ko)

\* update_graph, lines 597-599: requested keys that are already in memory
RECURSIVE remark_keys(_, _, _, _)
remark_keys(s, q, ko, wo) ==
    IF s.err # NoErr \/ q = <<>> THEN s
    ELSE LET s1 == [s EXCEPT !.who_has = Touch(@, {Head(q)})]
         IN  IF s1.who_has[Head(q)] # {}
             THEN remark_keys(mark_key_in_memory_own(s1, Head(q), ko, wo), Tail(q), ko, wo)
             ELSE remark_keys(s1, Tail(q), ko, wo)

\* a mutation of update_graph that gives every key of dsk a new keyorder
update_graph_reordered(s, g, dsk, keys, restrictions, loose_restrictions, ko, wo) ==
    LET note(s1) ==
            [s1 EXCEPT
               !.restrictions = [k \in (DOMAIN @) \cup DOMAIN restrictions |->
                                   IF Has(restrictions, k) THEN restrictions[k] ELSE @[k]],
               !.loose_restrictions = @ \cup loose_restrictions,
               !.keyorder = [k \in (DOMAIN @) \cup dsk |->
                                   IF k \in dsk THEN <<s.generation, Rank(dsk, k)>> ELSE @[k]],
               !.generation = IF Cardinality(dsk) > 1 THEN @ + 1 ELSE @]
        blame(s2) == fail_blamed(s2, PairsOf(SeqFilter(ko, dsk), s2.dependencies, ko), ko)
        admitted(s1) ==
            IF s1.err # NoErr THEN s1
            ELSE remark_keys(seed_ready_tasks(blame(note(s1)), dsk, ko, wo),
                             SeqFilter(ko, keys), ko, wo)
    IN  admitted(update_state(s, g, dsk, keys))

\* Scheduler.update_graph(dsk, keys, restrictions, loose_restrictions); no
\* plugin is registered
update_graph(s, g, dsk, keys, restrictions, loose_restrictions, ko, wo) ==
    LET \* lines 574-589
        note(s1) ==
            [s1 EXCEPT
               !.restrictions = [k \in (DOMAIN @) \cup DOMAIN restrictions |->
                                   IF Has(restrictions, k) THEN restrictions[k] ELSE @[k]],
               !.loose_restrictions = @ \cup loose_restrictions,
               !.keyorder = [k \in (DOMAIN @) \cup dsk |->
                                   IF Has(@, k) THEN @[k] ELSE <<s.generation, Rank(dsk, k)>>],
               !.generation = IF Cardinality(dsk) > 1 THEN @ + 1 ELSE @]
        \* lines 591-594
        blame(s2) == fail_blamed(s2, PairsOf(SeqFilter(ko, dsk), s2.dependencies, ko), ko)
        \* lines 570-599
        admitted(s1) ==
            IF s1.err # NoErr THEN s1
            ELSE remark_keys(seed_ready_tasks(blame(note(s1)), dsk, ko, wo),
                             SeqFilter(ko, keys), ko, wo)
    IN  admitted(update_state(s, g, dsk, keys))

(***************************************************************************)
(* The state machine                                                        *)
(***************************************************************************)
VARIABLES
    graph,              \* key -> keys its task refers to (fixed by Init)
    dask, dependencies, dependents, generation, has_what, held_data, in_play,
    keyorder, nbytes, ncores, nannies, processing, restrictions,
    loose_restrictions, stacks, waiting, waiting_data, who_has, deleted_keys,
    exceptions, exceptions_blame, worker_queues, round_robin,
    idle,               \* address -> worker_core coroutines waiting in get()
    inflight,           \* (address, key) -> compute RPCs awaiting a response
    emitted,            \* what the last handler emitted, in order
    raised,             \* the exception the last handler raised
    reported,           \* keys a key-in-memory report was ever emitted for
    korder, worder,     \* the orders in which sets of keys, of workers iterate
    nregister, nupdate, ndata, nfault,  \* event counters
    stale,              \* a completion came for a key its worker was not processing
    healrun,            \* a run of heal on a state dict (SpecHeal)
    placement,          \* a run of decide_worker on its arguments (SpecDecide)
    closing,            \* Scheduler.status, the inbox and the progress of cleanup
    nanny               \* one Nanny, its coroutines and its worker processes

schedvars == <<dask, dependencies, dependents, generation, has_what, held_data,
               in_play, keyorder, nbytes, ncores, nannies, processing,
               restrictions, loose_restrictions, stacks, waiting, waiting_data,
               who_has, deleted_keys, exceptions, exceptions_blame,
               worker_queues, round_robin>>

\* what no scheduler event changes
fixed == <<graph, korder, worder, healrun, placement, closing, nanny>>

vars == <<fixed, schedvars, idle, inflight, emitted, raised, reported,
          nregister, nupdate, ndata, nfault, stale>>

\* the Scheduler's fields as a record, for the handlers above
Cur == [dask |-> dask, dependencies |-> dependencies, dependents |-> dependents,
        generation |-> generation, has_what |-> has_what, held_data |-> held_data,
        in_play |-> in_play, keyorder |-> keyorder, nbytes |-> nbytes,
        ncores |-> ncores, nannies |-> nannies, processing |-> processing,
        restrictions |-> restrictions, loose_restrictions |-> loose_restrictions,
        stacks |-> stacks, waiting |-> waiting, waiting_data |-> waiting_data,
        who_has |-> who_has, deleted_keys |-> deleted_keys,
        exceptions |-> exceptions, exceptions_blame |-> exceptions_blame,
        worker_queues |-> worker_queues, round_robin |-> round_robin,
        out |-> <<>>, err |-> NoErr, ret |-> [w \in {} |-> <<>>]]

\* the state a handler leaves behind
Install(s) ==
    /\ dask' = s.dask
    /\ dependencies' = s.dependencies
    /\ dependents' = s.dependents
    /\ generation' = s.generation
    /\ has_what' = s.has_what
    /\ held_data' = s.held_data
    /\ in_play' = s.in_play
    /\ keyorder' = s.keyorder
    /\ nbytes' = s.nbytes
    /\ ncores' = s.ncores
    /\ nannies' = s.nannies
    /\ processing' = s.processing
    /\ restrictions' = s.restrictions
    /\ loose_restrictions' = s.loose_restrictions
    /\ stacks' = s.stacks
    /\ waiting' = s.waiting
    /\ waiting_data' = s.waiting_data
    /\ who_has' = s.who_has
    /\ deleted_keys' = s.deleted_keys
    /\ exceptions' = s.exceptions
    /\ exceptions_blame' = s.exceptions_blame
    /\ worker_queues' = s.worker_queues
    /\ round_robin' = s.round_robin
    /\ emitted' = s.out
    /\ raised' = s.err
    /\ reported' = reported \cup {m[2] : m \in {n \in Range(s.out) : n[1] = "key-in-memory"}}

\* no run of heal
NoHeal == [n |-> 0]

\* a scheduler nobody asked to close: status is not 'closing', nothing is in
\* scheduler_queues[0], cleanup was never called
NoClose == [status |-> "running", inbox |-> <<>>, need |-> 0, taken |-> <<>>,
            calls |-> 0, returned |-> FALSE]

\* Nanny.__init__ followed by _start: worker process 1 runs and is
\* self.process, worker_port is set, _watch sleeps, no handler is running.
\* process is 0 for None; live are the worker processes that are alive.
NoNanny == [process |-> 1, live |-> {1}, started |-> 1,
            watch |-> "sleep", watching |-> 0,
            kill |-> "idle", instantiate |-> "idle", instantiating |-> 0,
            killed |-> FALSE, deaths |-> 0, kills |-> 0, raised |-> NoErr]

\* no run of decide_worker
NoPlacement == [n |-> 0]

\* the task graphs a client submits from
Chain == [k \in Keys |-> CASE k = "x" -> {} [] k = "y" -> {"x"} [] k = "z" -> {"y"}]

Fork == [k \in Keys |-> CASE k = "x" -> {} [] k = "y" -> {"x"} [] k = "z" -> {"x"}]

Graphs == {Chain, Fork}

\* nbytes a worker reports for the value of key
SizeOf(key) == CASE key = "x" -> 2 [] key = "y" -> 1 [] key = "z" -> 1

\* Scheduler.__init__
InitScheduler ==
    /\ dask = {}
    /\ dependencies = EmptyMap
    /\ dependents = EmptyMap
    /\ generation = 0
    /\ has_what = EmptyMap
    /\ held_data = {}
    /\ in_play = {}
    /\ keyorder = EmptyMap
    /\ nbytes = EmptyMap
    /\ ncores = EmptyMap
    /\ nannies = {}
    /\ processing = EmptyMap
    /\ restrictions = EmptyMap
    /\ loose_restrictions = {}
    /\ stacks = EmptyMap
    /\ waiting = EmptyMap
    /\ waiting_data = EmptyMap
    /\ who_has = EmptyMap
    /\ deleted_keys = EmptyMap
    /\ exceptions = {}
    /\ exceptions_blame = EmptyMap
    /\ worker_queues = EmptyMap
    /\ round_robin = 0
    /\ idle = [w \in Workers |-> 0]
    /\ inflight = [p \in Workers \X Keys |-> 0]
    /\ emitted = <<>>
    /\ raised = NoErr
    /\ reported = {}
    /\ nregister = 0
    /\ nupdate = 0
    /\ ndata = 0
    /\ nfault = 0
    /\ stale = FALSE
    /\ closing = NoClose
    /\ nanny = NoNanny

Init ==
    /\ graph \in Graphs
    /\ korder \in KeyOrders
    /\ worder \in WorkerOrders
    /\ InitScheduler
    /\ healrun = NoHeal
    /\ placement = NoPlacement

(***************************************************************************)
(* Dispatcher coroutines (Scheduler.worker, Scheduler.worker_core)          *)
(***************************************************************************)
RECURSIVE Launch(_, _, _)
Launch(f, w, q) ==
    IF q = <<>> THEN f
    ELSE Launch([f EXCEPT ![<<w, Head(q)[2]>>] = @ + 1], w, Tail(q))

\* remove_worker, lines 521-523, seen from the coroutines of address: the
\* queue object leaves worker_queues with the close messages behind whatever
\* it still held.  Coroutines waiting in get() take its messages in order;
\* no other coroutine ever reads it again.
Orphaned(s) == {w \in DOMAIN worker_queues : ~Has(s.worker_queues, w)}

Taken(w) == SubSeq(worker_queues[w], 1,
                   IF idle[w] < Len(worker_queues[w]) THEN idle[w] ELSE Len(worker_queues[w]))

InflightAfter(s, f) ==
    [p \in Workers \X Keys |->
        IF p[1] \in Orphaned(s)
        THEN Launch(f, p[1], Taken(p[1]))[p]
        ELSE f[p]]

IdleAfter(s, f) == [w \in Workers |-> IF w \in Orphaned(s) THEN 0 ELSE f[w]]

\* worker_core after it handled a response: it dies with the handler's
\* exception, or with the KeyError of self.worker_queues[ident]; otherwise it
\* waits in get() again
Resume(s, w) == IF s.err = NoErr /\ Has(s.worker_queues, w) THEN 1 ELSE 0

\* 'register': add_worker, then the worker coroutine starts ncores[address]
\* worker_core coroutines
Register(w, keys, nc, ko, wo) ==
    /\ nregister < MaxRegister
    /\ keys \subseteq reported
    /\ Cardinality(keys) <= MaxHeldKeys
    /\ LET start(s) ==
               /\ Install(s)
               /\ idle' = IF s.err = NoErr THEN [idle EXCEPT ![w] = @ + nc] ELSE idle
       IN  start(add_worker(Cur, w, keys, nc, ko, wo))
    /\ nregister' = nregister + 1
    /\ UNCHANGED <<fixed, stale, inflight, nupdate, ndata, nfault>>

\* 'unregister': remove_worker(address)
Unregister(w, ko, wo) ==
    /\ nfault < MaxFaults
    /\ Has(processing, w)
    /\ LET close(s) ==
               /\ Install(s)
               /\ idle' = IdleAfter(s, idle)
               /\ inflight' = InflightAfter(s, inflight)
       IN  close(remove_worker(Cur, w, TRUE, ko, wo))
    /\ nfault' = nfault + 1
    /\ UNCHANGED <<fixed, stale, nregister, nupdate, ndata>>

\* worker_core, lines 771-792: take a compute-task and call the worker
WorkerCoreGet(w) ==
    /\ Has(worker_queues, w)
    /\ idle[w] > 0
    /\ worker_queues[w] # <<>>
    /\ Head(worker_queues[w])[1] = "compute-task"
    /\ worker_queues' = [worker_queues EXCEPT ![w] = Tail(@)]
    /\ idle' = [idle EXCEPT ![w] = @ - 1]
    /\ inflight' = [inflight EXCEPT ![<<w, Head(worker_queues[w])[2]>>] = @ + 1]
    /\ emitted' = <<>>
    /\ raised' = NoErr
    /\ UNCHANGED <<fixed, stale, dask, dependencies, dependents, generation, has_what,
                   held_data, in_play, keyorder, nbytes, ncores, nannies,
                   processing, restrictions, loose_restrictions, stacks, waiting,
                   waiting_data, who_has, deleted_keys, exceptions,
                   exceptions_blame, round_robin, reported, nregister, nupdate,
                   ndata, nfault>>

\* worker_core, lines 804-805: the worker answers OK
TaskFinished(w, key, ko, wo) ==
    /\ inflight[<<w, key>>] > 0
    /\ LET resume(s) ==
               /\ Install(s)
               /\ idle' = [idle EXCEPT ![w] = @ + Resume(s, w)]
       IN  resume(mark_task_finished(Cur, key, w, SizeOf(key), ko, wo))
    /\ inflight' = [inflight EXCEPT ![<<w, key>>] = @ - 1]
    /\ stale' = (stale \/ (Has(processing, w) /\ key \notin processing[w]))
    /\ UNCHANGED <<fixed, nregister, nupdate, ndata, nfault>>

\* worker_core, lines 797-799: the worker answers error
TaskErred(w, key, ko) ==
    /\ inflight[<<w, key>>] > 0
    /\ LET resume(s) ==
               /\ Install(s)
               /\ idle' = [idle EXCEPT ![w] = @ + Resume(s, w)]
       IN  resume(mark_task_erred(Cur, key, w, ko))
    /\ inflight' = [inflight EXCEPT ![<<w, key>>] = @ - 1]
    /\ UNCHANGED <<fixed, stale, nregister, nupdate, ndata, nfault>>

\* worker_core, lines 801-802: the worker answers missing-data
TaskMissing(w, key, missing, ko, wo) ==
    /\ nfault < MaxFaults
    /\ inflight[<<w, key>>] > 0
    /\ Has(dependencies, key)
    /\ missing # {}
    /\ missing \subseteq dependencies[key]
    /\ LET resume(s) ==
               /\ Install(s)
               /\ idle' = [idle EXCEPT ![w] = @ + Resume(s, w)]
       IN  resume(mark_missing_data(Cur, missing, key, w, ko, wo))
    /\ inflight' = [inflight EXCEPT ![<<w, key>>] = @ - 1]
    /\ nfault' = nfault + 1
    /\ UNCHANGED <<fixed, stale, nregister, nupdate, ndata>>

\* Scheduler.worker, lines 744-746: the stream to the worker fails during
\* the call, and the worker coroutine removes the worker
StreamError(w, key, ko, wo) ==
    /\ nfault < MaxFaults
    /\ inflight[<<w, key>>] > 0
    /\ LET close(s) ==
               /\ Install(s)
               /\ idle' = IdleAfter(s, idle)
               /\ inflight' = InflightAfter(s, [inflight EXCEPT ![<<w, key>>] = @ - 1])
       IN  close(remove_worker(Cur, w, TRUE, ko, wo))
    /\ nfault' = nfault + 1
    /\ UNCHANGED <<fixed, stale, nregister, nupdate, ndata>>

(***************************************************************************)
(* Client events (Scheduler.handle_messages) and the periodic callback      *)
(***************************************************************************)
\* 'update-graph'.  A task refers only to keys the client knows: keys of the
\* submitted graph, of an earlier graph, or held data.
UpdateGraph(dsk, keys, ko, wo) ==
    /\ nupdate < MaxUpdateGraph
    /\ dsk # {} /\ keys # {}
    /\ keys \subseteq dsk
    /\ \A k \in dsk : graph[k] \subseteq dsk \cup dask \cup held_data
    /\ Install(update_graph(Cur, graph, dsk, keys, EmptyMap, {}, ko, wo))
    /\ nupdate' = nupdate + 1
    /\ UNCHANGED <<fixed, stale, idle, inflight, nregister, ndata, nfault>>

\* 'missing-data' from a client that failed to gather keys reported in memory
ClientMissingData(missing, ko, wo) ==
    /\ nfault < MaxFaults
    /\ missing # {}
    /\ missing \subseteq reported \cap DOMAIN dependencies
    /\ Install(mark_missing_data(Cur, missing, "", "", ko, wo))
    /\ nfault' = nfault + 1
    /\ UNCHANGED <<fixed, stale, idle, inflight, nregister, nupdate, ndata>>

\* 'update-data': data scattered to registered workers
UpdateData(key, workers, ko, wo) ==
    /\ ndata < MaxUpdateData
    /\ graph[key] = {}
    /\ Cardinality(workers) = 1
    /\ workers \subseteq DOMAIN ncores
    /\ Install(update_data(Cur, [k \in {key} |-> workers], [k \in {key} |-> SizeOf(key)], ko, wo))
    /\ ndata' = ndata + 1
    /\ UNCHANGED <<fixed, stale, idle, inflight, nregister, nupdate, nfault>>

\* 'release-held-data'
ReleaseHeldData(keys) ==
    /\ keys # {}
    /\ keys \subseteq held_data
    /\ Install(release_held_data(Cur, keys))
    /\ UNCHANGED <<fixed, stale, idle, inflight, nregister, nupdate, ndata, nfault>>

\* Scheduler.clear_data_from_workers
ClearDataFromWorkers ==
    /\ deleted_keys # EmptyMap
    /\ Install([Cur EXCEPT !.deleted_keys = EmptyMap])
    /\ UNCHANGED <<fixed, stale, idle, inflight, nregister, nupdate, ndata, nfault>>

Next ==
    \/ \E w \in Workers, nc \in 1..MaxCores : Register(w, {}, nc, korder, worder)
    \/ \E w \in Workers : Unregister(w, korder, worder)
    \/ \E w \in Workers : WorkerCoreGet(w)
    \/ \E w \in Workers, key \in Keys : TaskFinished(w, key, korder, worder)
    \/ \E w \in Workers, key \in Keys : TaskErred(w, key, korder)
    \/ \E w \in Workers, key \in Keys, missing \in SUBSET Keys :
          TaskMissing(w, key, missing, korder, worder)
    \/ \E w \in Workers, key \in Keys : StreamError(w, key, korder, worder)
    \/ \E dsk \in SUBSET Keys, keys \in SUBSET Keys : UpdateGraph(dsk, keys, korder, worder)
    \/ \E missing \in SUBSET Keys : ClientMissingData(missing, korder, worder)
    \/ \E keys \in SUBSET Keys : ReleaseHeldData(keys)
    \/ ClearDataFromWorkers

Spec == Init /\ [][Next]_vars

\* The same scheduler with workers that register holding data and clients
\* that scatter data, single-core workers
NextData ==
    \/ \E w \in Workers, keys \in SUBSET Keys : Register(w, keys, 1, korder, worder)
    \/ \E w \in Workers : Unregister(w, korder, worder)
    \/ \E w \in Workers : WorkerCoreGet(w)
    \/ \E w \in Workers, key \in Keys : TaskFinished(w, key, korder, worder)
    \/ \E dsk \in SUBSET Keys, keys \in SUBSET Keys : UpdateGraph(dsk, keys, korder, worder)
    \/ \E key \in Keys, workers \in SUBSET Workers : UpdateData(key, workers, korder, worder)
    \/ \E keys \in SUBSET Keys : ReleaseHeldData(keys)
    \/ ClearDataFromWorkers

SpecData == Init /\ [][NextData]_vars

\* The scheduler with workers that answer every compute-task OK, and
\* dispatcher coroutines and responses that are not delayed for ever
NextLive ==
    \/ \E w \in Workers, nc \in 1..MaxCores : Register(w, {}, nc, korder, worder)
    \/ \E w \in Workers : Unregister(w, korder, worder)
    \/ \E w \in Workers : WorkerCoreGet(w)
    \/ \E w \in Workers, key \in Keys : TaskFinished(w, key, korder, worder)
    \/ \E dsk \in SUBSET Keys, keys \in SUBSET Keys : UpdateGraph(dsk, keys, korder, worder)

SpecLive ==
    /\ Init
    /\ [][NextLive]_vars
    /\ \A w \in Workers : WF_vars(WorkerCoreGet(w))
    /\ \A w \in Workers, key \in Keys : WF_vars(TaskFinished(w, key, korder, worder))

(***************************************************************************)
(* heal as a function of a state dict                                       *)
(***************************************************************************)
\* bound on the length of a stack given to heal or to ensure_occupied
MaxStackLen == 2

\* bound on the number of keys in a processing set given to heal or to
\* ensure_occupied
MaxProcessing == 1

\* bound on the number of times heal is applied in a run
MaxHeals == 2

SeqsUpTo(S, n) == UNION {[1..m -> S] : m \in 0..n}

\* a state dict over the tasks dsk of graph g; heal clears waiting and
\* waiting_data before it reads them
HealInput(g, dsk, in_memory, st, pr) ==
    [keys |-> {},
     dependencies |-> [k \in dsk |-> g[k]],
     dependents |-> [k \in dsk |-> {d \in dsk : k \in g[d]}],
     waiting |-> EmptyMap, waiting_data |-> EmptyMap,
     in_memory |-> in_memory, processing |-> pr, stacks |-> st,
     finished_results |-> {}, released |-> {}, in_play |-> {},
     check_finished |-> TRUE, err |-> NoErr]

InitHeal ==
    /\ graph \in Graphs
    /\ korder \in KeyOrders
    /\ worder \in WorkerOrders
    /\ InitScheduler
    /\ placement = NoPlacement
    /\ \E dsk \in SUBSET Keys, in_memory \in SUBSET Keys :
          /\ \A k \in dsk : graph[k] \subseteq dsk
          /\ in_memory \subseteq dsk
          /\ \E st \in [Workers -> SeqsUpTo(dsk, MaxStackLen)] :
             \E pr \in [Workers -> {S \in SUBSET dsk : Cardinality(S) <= MaxProcessing}] :
                healrun = [n |-> 0, input |-> HealInput(graph, dsk, in_memory, st, pr),
                           cur |-> HealInput(graph, dsk, in_memory, st, pr),
                           once |-> HealInput(graph, dsk, in_memory, st, pr)]

\* heal applied to the state dict the last application returned
Heal ==
    /\ healrun.n < MaxHeals
    /\ healrun.cur.err = NoErr
    /\ LET c == healrun.cur
           r == heal(c.dependencies, c.dependents, c.in_memory, c.stacks,
                     c.processing, c.waiting, c.waiting_data)
       IN  healrun' = [n |-> healrun.n + 1, input |-> healrun.input, cur |-> r,
                       once |-> IF healrun.n = 0 THEN r ELSE healrun.once]
    /\ UNCHANGED <<graph, korder, worder, placement, closing, nanny, schedvars, idle, inflight, emitted,
                   raised, reported, nregister, nupdate, ndata, nfault, stale>>

SpecHeal == InitHeal /\ [][Heal]_vars

(***************************************************************************)
(* decide_worker as a function of its arguments                             *)
(***************************************************************************)
\* the worker addresses decide_worker is given, and their iteration order
Addresses == {"A", "B", "C"}

AddressOrder == <<"A", "B", "C">>

\* the key decide_worker places, and the keys it may depend on
PlacedKey == "z"

DepKeys == {"x", "y"}

\* bound on the nbytes of a dependency
MaxBytes == 2

\* bound on the length of a stack given to decide_worker
MaxLoad == 1

\* the arguments of a call of decide_worker
DecideInput(deps, st, wh, nb, rs, loose) ==
    [dependencies |-> [k \in {PlacedKey} |-> deps], stacks |-> st, who_has |-> wh,
     restrictions |-> rs, loose_restrictions |-> loose, nbytes |-> nb,
     key |-> PlacedKey]

\* decide_worker(**args)
Place(args) ==
    decide_worker(args.dependencies, args.stacks, args.who_has, args.restrictions,
                  args.loose_restrictions, args.nbytes, args.key, AddressOrder)

\* lines 1060-1062: the bytes to transfer if the task of args ran on w
CommBytes(args, w) ==
    SumOver(args.nbytes, {k \in args.dependencies[args.key] : w \notin args.who_has[k]})

\* lines 1041-1045: the workers holding a dependency, or all workers
Candidates(args) ==
    LET holders == UNION {args.who_has[dep] : dep \in args.dependencies[args.key]}
    IN  IF holders = {} THEN DOMAIN args.stacks ELSE holders

\* the arguments with dependency d taken from the key's dependencies
WithoutDependency(args, d) ==
    [args EXCEPT !.dependencies[args.key] = @ \ {d}]

\* the arguments with worker w taken from stacks and from who_has
WithoutWorker(args, w) ==
    [args EXCEPT !.stacks = Del(@, w),
                 !.who_has = [k \in DOMAIN @ |-> @[k] \ {w}]]

NoResult == [err |-> NoErr, worker |-> "", who_has |-> EmptyMap]

InitDecide ==
    /\ graph = Chain
    /\ korder \in KeyOrders
    /\ worder \in WorkerOrders
    /\ InitScheduler
    /\ healrun = NoHeal
    /\ \E deps \in SUBSET DepKeys, dom \in SUBSET Addresses :
       \E st \in [dom -> SeqsUpTo({"x"}, MaxLoad)], wh \in [deps -> SUBSET dom],
          nb \in [deps -> 1..MaxBytes],
          rs \in {EmptyMap} \cup {[k \in {PlacedKey} |-> r] : r \in SUBSET Addresses},
          loose \in {{}, {PlacedKey}} :
            /\ rs = EmptyMap => loose = {}
            /\ placement = [n |-> 0,
                            input |-> DecideInput(deps, st, wh, nb, rs, loose),
                            cur |-> DecideInput(deps, st, wh, nb, rs, loose),
                            first |-> NoResult, second |-> NoResult, removed |-> ""]

\* decide_worker on the arguments drawn
Decide ==
    /\ placement.n = 0
    /\ placement' = [placement EXCEPT !.n = 1, !.first = Place(placement.input)]
    /\ UNCHANGED <<graph, korder, worder, healrun, closing, nanny, schedvars, idle, inflight, emitted,
                   raised, reported, nregister, nupdate, ndata, nfault, stale>>

\* decide_worker again, after a dependency was taken from the key
DecideWithoutDependency(d) ==
    /\ placement.n = 1
    /\ placement.first.err = NoErr
    /\ d \in placement.input.dependencies[PlacedKey]
    /\ placement' = [placement EXCEPT
                        !.n = 2, !.removed = d,
                        !.cur = WithoutDependency(placement.input, d),
                        !.second = Place(WithoutDependency(placement.input, d))]
    /\ UNCHANGED <<graph, korder, worder, healrun, closing, nanny, schedvars, idle, inflight, emitted,
                   raised, reported, nregister, nupdate, ndata, nfault, stale>>

\* decide_worker again, after a worker was taken from the worker set
DecideWithoutWorker(w) ==
    /\ placement.n = 1
    /\ placement.first.err = NoErr
    /\ w \in DOMAIN placement.input.stacks
    /\ placement' = [placement EXCEPT
                        !.n = 2, !.removed = w,
                        !.cur = WithoutWorker(placement.input, w),
                        !.second = Place(WithoutWorker(placement.input, w))]
    /\ UNCHANGED <<graph, korder, worder, healrun, closing, nanny, schedvars, idle, inflight, emitted,
                   raised, reported, nregister, nupdate, ndata, nfault, stale>>

NextDecide ==
    \/ Decide
    \/ \E d \in DepKeys : DecideWithoutDependency(d)
    \/ \E w \in Addresses : DecideWithoutWorker(w)

SpecDecide == InitDecide /\ [][NextDecide]_vars

(***************************************************************************)
(* update_graph with restrictions                                           *)
(***************************************************************************)
\* the host sets a restriction names; every worker is the one worker of its
\* host, and no set names both hosts
HostSets == {{Host(w)} : w \in Workers}

\* the restrictions arguments of update_graph: none, or one key restricted
RestrictionMaps == {EmptyMap} \cup {[k \in {key} |-> r] : key \in Keys, r \in HostSets}

\* the dsk and keys arguments of update_graph: tasks whose dependencies are
\* in dsk or known to the scheduler
Submittable(dsk, keys) ==
    /\ dsk # {} /\ keys # {}
    /\ keys \subseteq dsk
    /\ \A k \in dsk : graph[k] \subseteq dsk \cup dask \cup held_data

\* the keys update_state admits with nothing to wait for (lines 1099-1103)
\* that are neither queued nor running
AdmittedRunnable(s, dsk, keys) ==
    LET u == update_state(s, graph, dsk, keys)
    IN  IF u.err # NoErr THEN {}
        ELSE {k \in u.in_play \ s.in_play :
                 /\ GetOr(u.waiting, k, {"?"}) = {}
                 /\ k \notin InStacks(s.stacks) \cup InProcessing(s.processing)}

\* restrictions[key] names no registered host, and key may not run elsewhere
Unsatisfiable(s, rs, loose, key) ==
    /\ Has(rs, key) \/ Has(s.restrictions, key)
    /\ key \notin loose \cup s.loose_restrictions
    /\ ~\E w \in DOMAIN s.ncores :
            Host(w) \in (IF Has(rs, key) THEN rs[key] ELSE s.restrictions[key])

(***************************************************************************)
(* restart                                                                  *)
(***************************************************************************)
RECURSIVE remove_workers(_, _, _, _)
remove_workers(s, q, ko, wo) ==
    IF s.err # NoErr \/ q = <<>> THEN s
    ELSE remove_workers(remove_worker(s, Head(q), FALSE, ko, wo), Tail(q), ko, wo)

\* the workers the nannies start again register with the cores they had
RECURSIVE instantiate(_, _, _, _, _)
instantiate(s, q, cores, ko, wo) ==
    IF s.err # NoErr \/ q = <<>> THEN s
    ELSE instantiate(add_worker(s, Head(q), {}, cores[Head(q)], ko, wo), Tail(q), cores, ko, wo)

\* Scheduler.start: clear the collections of lines 240-245, one empty
\* processing set, stack and queue per worker, then heal_state
start(s, ko, wo) ==
    IF s.err # NoErr THEN s
    ELSE heal_state([s EXCEPT !.dask = {}, !.dependencies = EmptyMap,
                              !.dependents = EmptyMap, !.waiting = EmptyMap,
                              !.waiting_data = EmptyMap, !.in_play = {},
                              !.keyorder = EmptyMap, !.nbytes = EmptyMap,
                              !.restrictions = EmptyMap, !.loose_restrictions = {},
                              !.processing = [w \in DOMAIN s.ncores |-> {}],
                              !.stacks = [w \in DOMAIN s.ncores |-> <<>>],
                              !.worker_queues = [w \in DOMAIN s.ncores |-> <<>>]],
                    ko, wo)

\* Scheduler.restart; every worker has a nanny, and every nanny answers the
\* kill and the instantiate
restart(s, ko, wo) ==
    LET addrs == SeqFilter(wo, s.nannies)
        \* lines 914-922
        begin(s1) ==
            IF s1.err # NoErr THEN s1
            ELSE report(start(s1, ko, wo), "restart", "")
    IN  begin(instantiate(remove_workers(s, addrs, ko, wo), addrs, s.ncores, ko, wo))

\* 'restart'
Restart(ko, wo) ==
    /\ nfault < MaxFaults
    /\ LET begin(s) ==
               /\ Install(s)
               /\ idle' = [w \in Workers |-> IF s.err = NoErr
                                              THEN GetOr(s.ncores, w, 0) ELSE idle[w]]
       IN  begin(restart(Cur, ko, wo))
    /\ nfault' = nfault + 1
    /\ UNCHANGED <<fixed, stale, inflight, nregister, nupdate, ndata>>

\* The scheduler with a client that may ask for one restart
NextRestart ==
    \/ \E w \in Workers, nc \in 1..MaxCores : Register(w, {}, nc, korder, worder)
    \/ \E w \in Workers : WorkerCoreGet(w)
    \/ \E w \in Workers, key \in Keys : TaskFinished(w, key, korder, worder)
    \/ \E w \in Workers, key \in Keys : TaskErred(w, key, korder)
    \/ \E dsk \in SUBSET Keys, keys \in SUBSET Keys : UpdateGraph(dsk, keys, korder, worder)
    \/ Restart(korder, worder)

SpecRestart == Init /\ [][NextRestart]_vars

\* a scheduler that was just constructed and has the workers of s
Fresh(s) ==
    [dask |-> {}, dependencies |-> EmptyMap, dependents |-> EmptyMap,
     generation |-> 0, has_what |-> [w \in DOMAIN s.ncores |-> {}], held_data |-> {},
     in_play |-> {}, keyorder |-> EmptyMap, nbytes |-> EmptyMap,
     ncores |-> s.ncores, nannies |-> s.nannies,
     processing |-> [w \in DOMAIN s.ncores |-> {}],
     restrictions |-> EmptyMap, loose_restrictions |-> {},
     stacks |-> [w \in DOMAIN s.ncores |-> <<>>], waiting |-> EmptyMap,
     waiting_data |-> EmptyMap, who_has |-> EmptyMap, deleted_keys |-> EmptyMap,
     exceptions |-> {}, exceptions_blame |-> EmptyMap,
     worker_queues |-> [w \in DOMAIN s.ncores |-> <<>>], round_robin |-> 0,
     out |-> <<>>, err |-> NoErr, ret |-> [w \in {} |-> <<>>]]

\* what update_graph decided: the keys left waiting, the keys in play, the
\* keys handed to workers, the reports without their order, the exception
Scheduled(s) ==
    [waiting |-> s.waiting, in_play |-> s.in_play,
     placed |-> InStacks(s.stacks) \cup InProcessing(s.processing),
     reports |-> {<<m[1], m[2]>> : m \in Range(s.out)}, err |-> s.err]

\* restart has just returned
Restarted == <<"restart", "", "">> \in Range(emitted)

(***************************************************************************)
(* close: Scheduler.cleanup and the coroutines it stops                     *)
(***************************************************************************)
\* bound on the number of calls of cleanup
MaxCleanup == 2

\* bound on the number of client messages queued behind a close message
MaxPending == 1

\* Scheduler.cleanup as far as its first get(), for a scheduler started with
\* start(start_queues=True), whose scheduler_queues is [Q0, Q0].  arrived is
\* what lies in Q0 when cleanup runs: the client messages behind a close
\* message that came through Q0.  The handle_messages coroutine of Q0 either
\* made the call (via = "inbox") and reads no more, or waits in get() and is
\* handed the close-stream message.
cleanup(s, c, via, arrived) ==
    IF c.status = "closing" THEN [s |-> s, c |-> [c EXCEPT !.calls = @ + 1]]
    ELSE IF \E w \in DOMAIN s.ncores : ~Has(s.worker_queues, w)
    THEN [s |-> Raise(s, "KeyError:cleanup"),
          c |-> [c EXCEPT !.status = "closing", !.calls = @ + 1]]
    ELSE [s |-> [s EXCEPT !.worker_queues =
                     [w \in DOMAIN @ |->
                         @[w] \o [i \in 1..GetOr(s.ncores, w, 0) |-> <<"close", "">>]]],
          c |-> [status |-> "closing",
                 inbox |-> arrived \o (IF via = "inbox" THEN <<"close-stream">> ELSE <<>>),
                 need |-> SumOver(s.ncores, DOMAIN s.ncores),
                 taken |-> <<>>,
                 calls |-> c.calls + 1,
                 returned |-> SumOver(s.ncores, DOMAIN s.ncores) = 0]]

\* 'close', or a call of Scheduler.close
Close(via, pending) ==
    /\ closing.calls < MaxCleanup
    /\ via = "inbox" \/ pending = 0
    /\ LET stop(r) ==
               /\ worker_queues' = r.s.worker_queues
               /\ raised' = r.s.err
               /\ closing' = r.c
       IN  stop(cleanup(Cur, closing, via, [i \in 1..pending |-> "update-graph"]))
    /\ emitted' = <<>>
    /\ UNCHANGED <<graph, korder, worder, healrun, placement, nanny, stale, dask,
                   dependencies, dependents, generation, has_what, held_data, in_play,
                   keyorder, nbytes, ncores, nannies, processing, restrictions,
                   loose_restrictions, stacks, waiting, waiting_data, who_has,
                   deleted_keys, exceptions, exceptions_blame, round_robin, reported,
                   idle, inflight, nregister, nupdate, ndata, nfault>>

\* cleanup, lines 313-314: one more message taken from scheduler_queues[0]
CleanupGet ==
    /\ closing.status = "closing"
    /\ ~closing.returned
    /\ closing.need > 0
    /\ closing.inbox # <<>>
    /\ closing' = [closing EXCEPT !.inbox = Tail(@),
                                  !.taken = Append(@, Head(closing.inbox)),
                                  !.need = @ - 1,
                                  !.returned = (closing.need = 1)]
    /\ UNCHANGED <<graph, korder, worder, healrun, placement, nanny, schedvars, idle,
                   inflight, emitted, raised, reported, nregister, nupdate, ndata,
                   nfault, stale>>

\* worker_core, lines 773-777 and 807-811: a close message ends the coroutine,
\* which puts worker-finished into scheduler_queues[0]
WorkerCoreClose(w) ==
    /\ Has(worker_queues, w)
    /\ idle[w] > 0
    /\ worker_queues[w] # <<>>
    /\ Head(worker_queues[w])[1] = "close"
    /\ worker_queues' = [worker_queues EXCEPT ![w] = Tail(@)]
    /\ idle' = [idle EXCEPT ![w] = @ - 1]
    /\ closing' = [closing EXCEPT !.inbox = Append(@, "worker-finished")]
    /\ emitted' = <<>>
    /\ raised' = NoErr
    /\ UNCHANGED <<graph, korder, worder, healrun, placement, nanny, stale, dask,
                   dependencies, dependents, generation, has_what, held_data, in_play,
                   keyorder, nbytes, ncores, nannies, processing, restrictions,
                   loose_restrictions, stacks, waiting, waiting_data, who_has,
                   deleted_keys, exceptions, exceptions_blame, round_robin, reported,
                   inflight, nregister, nupdate, ndata, nfault>>

\* The scheduler with workers that answer every compute-task OK and a client
\* that asks it to close
NextClose ==
    \/ \E w \in Workers, nc \in 1..MaxCores : Register(w, {}, nc, korder, worder)
    \/ \E w \in Workers : WorkerCoreGet(w)
    \/ \E w \in Workers, key \in Keys : TaskFinished(w, key, korder, worder)
    \/ \E dsk \in SUBSET Keys, keys \in SUBSET Keys : UpdateGraph(dsk, keys, korder, worder)
    \/ \E via \in {"inbox", "other"}, pending \in 0..MaxPending : Close(via, pending)
    \/ CleanupGet
    \/ \E w \in Workers : WorkerCoreClose(w)

SpecClose == Init /\ [][NextClose]_vars

(***************************************************************************)
(* Nanny: _watch, _kill and instantiate as coroutines of one event loop     *)
(***************************************************************************)
\* bound on the number of worker processes a nanny starts
MaxProcesses == 3

\* bound on the number of worker processes that die by themselves
MaxDeaths == 2

\* bound on the number of kill requests
MaxKills == 2

\* a worker process dies
WorkerDies ==
    /\ nanny.deaths < MaxDeaths
    /\ \E pid \in nanny.live :
          nanny' = [nanny EXCEPT !.live = @ \ {pid}, !.deaths = @ + 1]
    /\ UNCHANGED <<graph, korder, worder, healrun, placement, closing, schedvars, idle,
                   inflight, emitted, raised, reported, nregister, nupdate, ndata,
                   nfault, stale>>

\* Nanny._watch from one yield to the next: it finds the process dead and
\* waits for center.unregister (lines 128-131); it enters instantiate, which
\* raises or starts a process (92-100); the new worker reports its port
\* (101-109)
WatchStep ==
    /\ \/ /\ nanny.watch = "sleep"
          /\ nanny.process # 0 /\ nanny.process \notin nanny.live
          /\ nanny' = [nanny EXCEPT !.watch = "unregister"]
       \/ /\ nanny.watch = "unregister"
          /\ nanny.process \in nanny.live
          /\ nanny' = [nanny EXCEPT !.watch = "failed", !.raised = "ValueError"]
       \/ /\ nanny.watch = "unregister"
          /\ nanny.process \notin nanny.live
          /\ nanny.started < MaxProcesses
          /\ nanny' = [nanny EXCEPT !.watch = "instantiate",
                                    !.started = @ + 1,
                                    !.process = nanny.started + 1,
                                    !.watching = nanny.started + 1,
                                    !.live = @ \cup {nanny.started + 1}]
       \/ /\ nanny.watch = "instantiate"
          /\ nanny.watching \in nanny.live
          /\ nanny' = [nanny EXCEPT !.watch = "sleep", !.watching = 0]
    /\ UNCHANGED <<graph, korder, worder, healrun, placement, closing, schedvars, idle,
                   inflight, emitted, raised, reported, nregister, nupdate, ndata,
                   nfault, stale>>

\* Nanny._kill from one yield to the next: the request finds no process and
\* answers OK, or waits for center.unregister (lines 64-67); then it
\* terminates self.process, forgets it and answers OK (79-84)
KillStep ==
    /\ \/ /\ nanny.kill = "idle"
          /\ nanny.kills < MaxKills
          /\ nanny.process = 0
          /\ nanny' = [nanny EXCEPT !.kills = @ + 1, !.killed = TRUE, !.raised = NoErr]
       \/ /\ nanny.kill = "idle"
          /\ nanny.kills < MaxKills
          /\ nanny.process # 0
          /\ nanny' = [nanny EXCEPT !.kills = @ + 1, !.kill = "unregister"]
       \/ /\ nanny.kill = "unregister"
          /\ nanny.process = 0
          /\ nanny' = [nanny EXCEPT !.kill = "idle", !.raised = "AttributeError"]
       \/ /\ nanny.kill = "unregister"
          /\ nanny.process # 0
          /\ nanny' = [nanny EXCEPT !.kill = "idle", !.killed = TRUE,
                                    !.live = @ \ {nanny.process},
                                    !.process = 0, !.raised = NoErr]
    /\ UNCHANGED <<graph, korder, worder, healrun, placement, closing, schedvars, idle,
                   inflight, emitted, raised, reported, nregister, nupdate, ndata,
                   nfault, stale>>

\* the 'instantiate' handler from one yield to the next: the request raises
\* or starts a process (lines 92-100); the new worker reports its port
\* (101-114)
InstantiateStep ==
    /\ \/ /\ nanny.instantiate = "idle"
          /\ nanny.process \in nanny.live
          /\ nanny' = [nanny EXCEPT !.killed = FALSE, !.raised = "ValueError"]
       \/ /\ nanny.instantiate = "idle"
          /\ nanny.process \notin nanny.live
          /\ nanny.started < MaxProcesses
          /\ nanny' = [nanny EXCEPT !.killed = FALSE,
                                    !.instantiate = "starting",
                                    !.started = @ + 1,
                                    !.process = nanny.started + 1,
                                    !.instantiating = nanny.started + 1,
                                    !.live = @ \cup {nanny.started + 1},
                                    !.raised = NoErr]
       \/ /\ nanny.instantiate = "starting"
          /\ nanny.instantiating \in nanny.live
          /\ nanny' = [nanny EXCEPT !.instantiate = "idle", !.instantiating = 0]
    /\ UNCHANGED <<graph, korder, worder, healrun, placement, closing, schedvars, idle,
                   inflight, emitted, raised, reported, nregister, nupdate, ndata,
                   nfault, stale>>

NextNanny ==
    \/ WorkerDies
    \/ WatchStep
    \/ KillStep
    \/ InstantiateStep

SpecNanny == Init /\ [][NextNanny]_vars

(***************************************************************************)
(* ensure_occupied as a function of the stacks and processing sets          *)
(***************************************************************************)
\* Two registered workers, every task of the graph in dask, and keys
\* distributed over stacks and processing sets, no key in two places
InitOccupy ==
    /\ graph \in Graphs
    /\ korder \in KeyOrders
    /\ worder \in WorkerOrders
    /\ healrun = NoHeal
    /\ placement = NoPlacement
    /\ closing = NoClose
    /\ nanny = NoNanny
    /\ dask = Keys
    /\ dependencies = [k \in Keys |-> graph[k]]
    /\ dependents = [k \in Keys |-> {d \in Keys : k \in graph[d]}]
    /\ generation = 0
    /\ has_what = [w \in Workers |-> {}]
    /\ held_data = {}
    /\ in_play = Keys
    /\ keyorder = EmptyMap
    /\ nbytes = EmptyMap
    /\ ncores \in [Workers -> 1..MaxCores]
    /\ nannies = Workers
    /\ stacks \in [Workers -> SeqsUpTo(Keys, MaxStackLen)]
    /\ processing \in [Workers -> {S \in SUBSET Keys : Cardinality(S) <= MaxProcessing}]
    /\ \A w \in Workers :
          /\ \A i, j \in DOMAIN stacks[w] : i # j => stacks[w][i] # stacks[w][j]
          /\ \A v \in Workers : Range(stacks[w]) \cap processing[v] = {}
          /\ \A v \in Workers \ {w} :
                /\ Range(stacks[w]) \cap Range(stacks[v]) = {}
                /\ processing[w] \cap processing[v] = {}
    /\ restrictions = EmptyMap
    /\ loose_restrictions = {}
    /\ waiting = EmptyMap
    /\ waiting_data = EmptyMap
    /\ who_has = EmptyMap
    /\ deleted_keys = EmptyMap
    /\ exceptions = {}
    /\ exceptions_blame = EmptyMap
    /\ worker_queues = [w \in Workers |-> <<>>]
    /\ round_robin = 0
    /\ idle = [w \in Workers |-> 0]
    /\ inflight = [p \in Workers \X Keys |-> 0]
    /\ emitted = <<>>
    /\ raised = NoErr
    /\ reported = {}
    /\ nregister = 0
    /\ nupdate = 0
    /\ ndata = 0
    /\ nfault = 0
    /\ stale = FALSE

\* ensure_occupied(worker)
Occupy(w) ==
    /\ Install(ensure_occupied(Cur, w))
    /\ UNCHANGED <<fixed, stale, idle, inflight, nregister, nupdate, ndata, nfault>>

SpecOccupy == InitOccupy /\ [][\E w \in Workers : Occupy(w)]_vars


(***************************************************************************)
(* A graph with a task of two dependencies                                  *)
(***************************************************************************)
\* z = f(x, y): a task whose dependencies can be in memory one at a time
Join == [k \in Keys |-> CASE k = "x" -> {} [] k = "y" -> {} [] k = "z" -> {"x", "y"}]

InitJoin ==
    /\ graph = Join
    /\ korder \in KeyOrders
    /\ worder \in WorkerOrders
    /\ InitScheduler
    /\ healrun = NoHeal
    /\ placement = NoPlacement

\* The scheduler of Spec with clients that submit from Join
SpecJoin == InitJoin /\ [][Next]_vars

(***************************************************************************)
(* assign_many_tasks as a function of the runnable keys and the stacks      *)
(***************************************************************************)
\* Registered workers with empty stacks, a graph of Graphs, Join or three
\* independent tasks, its runnable keys in waiting with empty waiting sets
\* and the dependencies of those keys in memory on a registered worker
InitAssign ==
    /\ graph \in Graphs \cup {Join, [k \in Keys |-> {}]}
    /\ korder \in KeyOrders
    /\ worder \in WorkerOrders
    /\ healrun = NoHeal
    /\ placement = NoPlacement
    /\ closing = NoClose
    /\ nanny = NoNanny
    /\ dask = Keys
    /\ dependencies = [k \in Keys |-> graph[k]]
    /\ dependents = [k \in Keys |-> {d \in Keys : k \in graph[d]}]
    /\ generation = 1
    /\ keyorder = [k \in Keys |-> <<0, Rank(Keys, k)>>]
    /\ \E registered \in (SUBSET Workers) \ {{}} :
          /\ ncores = [w \in registered |-> 1]
          /\ stacks = [w \in registered |-> <<>>]
          /\ processing = [w \in registered |-> {}]
          /\ worker_queues = [w \in registered |-> <<>>]
          /\ nannies = registered
          /\ \E runnable \in (SUBSET Keys) \ {{}}, holder \in registered :
                LET done == UNION {graph[k] : k \in runnable}
                IN  /\ done \cap runnable = {}
                    /\ \A d \in done : graph[d] \subseteq done
                    /\ waiting = [k \in runnable |-> {}]
                    /\ waiting_data = [k \in runnable \cup done |->
                                          {d \in runnable : k \in graph[d]}]
                    /\ who_has = [d \in done |-> {holder}]
                    /\ has_what = [w \in registered |-> IF w = holder THEN done ELSE {}]
                    /\ nbytes = [d \in done |-> SizeOf(d)]
                    /\ in_play = runnable \cup done
    /\ round_robin \in 0..(RoundRobinPeriod - 1)
    /\ held_data = {}
    /\ restrictions = EmptyMap
    /\ loose_restrictions = {}
    /\ deleted_keys = EmptyMap
    /\ exceptions = {}
    /\ exceptions_blame = EmptyMap
    /\ idle = [w \in Workers |-> 0]
    /\ inflight = [p \in Workers \X Keys |-> 0]
    /\ emitted = <<>>
    /\ raised = NoErr
    /\ reported = {}
    /\ nregister = 0
    /\ nupdate = 0
    /\ ndata = 0
    /\ nfault = 0
    /\ stale = FALSE

\* assign_many_tasks(..., keys) for a list of keys that are in waiting with
\* empty waiting sets, as seed_ready_tasks passes it
Assign(keys) ==
    /\ keys # {}
    /\ \A k \in keys : Has(waiting, k) /\ waiting[k] = {}
    /\ Install(assign_many_tasks(Cur, SeqFilter(korder, keys), worder))
    /\ UNCHANGED <<fixed, stale, idle, inflight, nregister, nupdate, ndata, nfault>>

SpecAssign == InitAssign /\ [][\E keys \in SUBSET Keys : Assign(keys)]_vars


(***************************************************************************)
(* Repeated admission                                                       *)
(***************************************************************************)
\* bound on the number of update-graph events of a client that submits
\* again
MaxAdmit == 2

\* 'update-graph' from a client that submits more than once; g gives the
\* tasks it sends, which may differ from those of an earlier submission
Admit(g, dsk, keys, ko, wo) ==
    /\ nupdate < MaxAdmit
    /\ dsk # {} /\ keys # {}
    /\ keys \subseteq dsk
    /\ \A k \in dsk : g[k] \subseteq dsk \cup dask \cup held_data
    /\ Install(update_graph(Cur, g, dsk, keys, EmptyMap, {}, ko, wo))
    /\ nupdate' = nupdate + 1
    /\ UNCHANGED <<fixed, stale, idle, inflight, nregister, ndata, nfault>>

\* The scheduler with single-core workers that answer every compute-task OK
\* and clients that submit again and release what they hold
NextAdmit ==
    \/ \E w \in Workers : Register(w, {}, 1, korder, worder)
    \/ \E w \in Workers : WorkerCoreGet(w)
    \/ \E w \in Workers, key \in Keys : TaskFinished(w, key, korder, worder)
    \/ \E g \in Graphs, dsk \in SUBSET Keys, keys \in SUBSET Keys :
          Admit(g, dsk, keys, korder, worder)
    \/ \E keys \in SUBSET Keys : ReleaseHeldData(keys)
    \/ ClearDataFromWorkers

SpecAdmit == Init /\ [][NextAdmit]_vars


(***************************************************************************)
(* Properties                                                               *)
(***************************************************************************)
\* where a key can be, as validate_state reads the Scheduler's fields
InMemory == {k \in DOMAIN who_has : who_has[k] # {}}

InWaiting == DOMAIN waiting

OnStacks == InStacks(stacks)

BeingProcessed == InProcessing(processing)

Places(k) == Count(k \in InWaiting) + Count(k \in OnStacks)
             + Count(k \in BeingProcessed) + Count(k \in InMemory)

\* C1 Disjointness: after update_graph, task responses, missing-data,
\* add_worker, remove_worker and release_held_data events (no update_data),
\* every key of the graph is in at most one of waiting, a worker's stack, a
\* worker's processing set and memory (a key in none of the four is released).
C1_Disjointness == ndata = 0 => \A k \in DOMAIN dependencies : Places(k) <= 1

\* C2 Runnable dependencies: every dependency of a key on a stack or in a
\* processing set is in memory.
C2_RunnableDependencies ==
    \A k \in OnStacks \cup BeingProcessed :
        Has(dependencies, k) => dependencies[k] \subseteq InMemory

C6_WaitingCorrectness ==
    \A k \in InMemory :
        /\ k \notin InWaiting
        /\ \A d \in DOMAIN waiting : k \notin waiting[d]

\* C7 in_play is exact: in_play is the set of keys in memory, in waiting, on
\* a stack or in a processing set.
C7_InPlayExact ==
    in_play = InMemory \cup InWaiting \cup OnStacks \cup BeingProcessed

Dispatched ==
    {d \in Keys : \E w \in Workers :
        \/ inflight[<<w, d>>] > 0
        \/ Has(worker_queues, w) /\ <<"compute-task", d>> \in Range(worker_queues[w])}

C10_ReplayNoOp ==
    \A w \in DOMAIN processing, key \in Keys :
        key \notin processing[w] =>
            mark_task_finished(Cur, key, w, SizeOf(key), korder, worder) = Cur

\* C4 Progress: if from some point on a worker is always registered, every
\* key in in_play is eventually in memory.
C4_Progress ==
    <>[](DOMAIN ncores # {}) =>
        \A k \in Keys : [](k \in in_play => <>(k \in InMemory))

\* the fields of a state dict that C9 compares
HealFields(r) ==
    <<r.waiting, r.waiting_data, r.stacks, r.processing, r.released, r.in_play,
      r.finished_results>>

\* C9 heal is idempotent: heal applied to a state dict that heal returned
\* returns, with the same waiting, waiting_data, stacks, processing, released,
\* in_play and finished_results.
C9_HealIdempotent ==
    healrun.n >= 2 =>
        /\ healrun.cur.err = NoErr
        /\ HealFields(healrun.cur) = HealFields(healrun.once)

C9_Witness ==
    /\ healrun.n = 2
    /\ healrun.cur.err = NoErr
    /\ healrun.once.stacks # healrun.input.stacks
    /\ healrun.once.processing # healrun.input.processing
    /\ healrun.once.waiting # EmptyMap

\* C10: a completion has been delivered for a key that its registered worker
\* was not processing, and the handler returned
C10_Witness == stale /\ raised = NoErr /\ emitted = <<>>

\* C11 Stale worker responses are tolerated: when worker w has been removed
\* while a compute RPC for key on w is in flight, handling the OK, the error
\* or the missing-data response for (key, w) raises nothing and leaves the
\* scheduler unchanged.
C11_StaleResponseTolerated ==
    \A w \in Workers, key \in Keys :
        (inflight[<<w, key>>] > 0 /\ ~Has(ncores, w)) =>
            /\ mark_task_finished(Cur, key, w, SizeOf(key), korder, worder) = Cur
            /\ mark_task_erred(Cur, key, w, korder) = Cur
            /\ \A missing \in (SUBSET GetOr(dependencies, key, {})) \ {{}} :
                  mark_missing_data(Cur, missing, key, w, korder, worder) = Cur

\* C12 Error cascade: when a worker reports an error for a key a of its
\* processing set, mark_task_erred returns, every key d that is a or a
\* transitive dependent of a has exceptions_blame[d] = a and is absent from
\* waiting, waiting_data and in_play, and exactly one task-erred report is
\* emitted for d.
C12_ErrorCascade ==
    \A w \in DOMAIN processing, a \in Keys :
        a \in processing[w] =>
            LET r == mark_task_erred(Cur, a, w, korder)
            IN  /\ r.err = NoErr
                /\ \A d \in Below(dependents, {a}, {}) :
                      /\ GetOr(r.exceptions_blame, d, "") = a
                      /\ ~Has(r.waiting, d)
                      /\ ~Has(r.waiting_data, d)
                      /\ d \notin r.in_play
                      /\ Cardinality({i \in DOMAIN r.out :
                            r.out[i][1] = "task-erred" /\ r.out[i][2] = d}) = 1

\* C13 Failed keys are not executed: a key recorded in exceptions_blame is
\* on no worker's stack and in no worker's processing set.
C13_FailedNotExecuted ==
    \A k \in DOMAIN exceptions_blame : k \notin OnStacks \cup BeingProcessed

\* the candidates after decide_worker has applied the key's restrictions
\* (lines 1046-1058)
Eligible(args) ==
    IF ~Has(args.restrictions, args.key) THEN Candidates(args)
    ELSE LET r == args.restrictions[args.key]
             held == {w \in Candidates(args) : Host(w) \in r}
             any == {w \in DOMAIN args.stacks : Host(w) \in r}
         IN  IF held # {} THEN held
             ELSE IF any # {} THEN any
             ELSE Candidates(args)

\* worker w has minimal commbytes among the workers of S, and the shortest
\* stack among those of S with that commbytes
MinimalIn(args, w, S) ==
    /\ w \in S
    /\ \A v \in S : CommBytes(args, w) <= CommBytes(args, v)
    /\ \A v \in S : CommBytes(args, v) = CommBytes(args, w) =>
                       Len(args.stacks[w]) <= Len(args.stacks[v])

\* C14 as claimed: the worker decide_worker returns is a worker holding a
\* dependency of the key (any worker if none holds one), with minimal
\* commbytes among these, and the shortest stack among those with minimal
\* commbytes.
C14_MinimalAmongHolders ==
    (placement.n >= 1 /\ placement.first.err = NoErr) =>
        MinimalIn(placement.input, placement.first.worker, Candidates(placement.input))

\* C14 amended: the same, among the candidates that the key's restrictions
\* leave (all candidates for a key without restrictions).
C14_MinimalAmongEligible ==
    (placement.n >= 1 /\ placement.first.err = NoErr) =>
        MinimalIn(placement.input, placement.first.worker, Eligible(placement.input))

\* C14: decide_worker returned a worker although another candidate has a
\* shorter stack, because that one would have to fetch more bytes
C14_Witness ==
    /\ placement.n >= 1
    /\ placement.first.err = NoErr
    /\ \E v \in Eligible(placement.input) :
          /\ CommBytes(placement.input, v) > CommBytes(placement.input, placement.first.worker)
          /\ Len(placement.input.stacks[v]) < Len(placement.input.stacks[placement.first.worker])

\* the arguments with the key's restrictions dropped
Unrestricted(args) ==
    [args EXCEPT !.restrictions = EmptyMap, !.loose_restrictions = {}]

C16_Monotone ==
    (placement.n = 2 /\ placement.second.err = NoErr) =>
        CommBytes(placement.cur, placement.second.worker)
            <= CommBytes(placement.input, placement.first.worker)

\* C16 amended: the same, when what was taken away is a dependency or a
\* worker other than the one chosen first.
C16_MonotoneOthers ==
    (placement.n = 2 /\ placement.second.err = NoErr
        /\ placement.removed # placement.first.worker) =>
        CommBytes(placement.cur, placement.second.worker)
            <= CommBytes(placement.input, placement.first.worker)

\* C16: decide_worker has chosen again after a dependency, or a worker other
\* than the one chosen first, was taken away, and now chooses another worker,
\* one with a smaller transfer cost
C16_Witness ==
    /\ placement.n = 2
    /\ placement.second.err = NoErr
    /\ placement.removed # placement.first.worker
    /\ placement.second.worker # placement.first.worker
    /\ CommBytes(placement.cur, placement.second.worker)
          < CommBytes(placement.input, placement.first.worker)

\* C17 Garbage is collected: every key in memory is in held_data or has a
\* non-empty waiting_data set.
C17_GarbageCollected ==
    \A k \in InMemory : k \in held_data \/ GetOr(waiting_data, k, {}) # {}

\* a step that handles a missing-data report: a fault that removes no worker
MissingDataStep == nfault' # nfault /\ DOMAIN ncores' = DOMAIN ncores

\* C18 Held data is never garbage-collected: a key that a step queues in
\* deleted_keys is not in held_data; and a held key resident on a worker
\* that stays registered is still in who_has after the step, unless the
\* step releases it or handles a missing-data report.
C18_HeldDataKept ==
    [][/\ \A w \in DOMAIN deleted_keys' :
             \A k \in deleted_keys'[w] \ GetOr(deleted_keys, w, {}) : k \notin held_data'
       /\ \A k \in held_data \cap held_data' :
             (/\ GetOr(who_has, k, {}) \cap DOMAIN ncores' # {}
              /\ ~MissingDataStep)
                => GetOr(who_has', k, {}) # {}]_vars

\* C18: remove_worker has just run its heal, keys have been queued for
\* deletion, and a held key is still resident on a registered worker
C18_Witness ==
    /\ \E i \in DOMAIN emitted : emitted[i][1] = "close"
    /\ \E w \in DOMAIN deleted_keys : deleted_keys[w] # {}
    /\ \E k \in held_data : GetOr(who_has, k, {}) \cap DOMAIN ncores # {}


\* the keys that were in the stack or the processing set of worker w
WorkOf(s, w) == Range(s.stacks[w]) \cup s.processing[w]

\* C19: after remove_worker(A) with heal on a registered worker A, A is in
\* none of ncores, has_what, stacks, processing, nannies, worker_queues nor
\* in any who_has set; every key resident only on A is out of memory; every
\* key of A's stack or processing set is in waiting, in a remaining worker's
\* stack or processing set, or released (outside in_play); r is the
\* scheduler as remove_worker leaves it, whether it returns or raises
C19_WorkerLoss ==
    \A A \in DOMAIN processing :
        LET r == remove_worker(Cur, A, TRUE, korder, worder)
        IN  /\ ~Has(r.ncores, A) /\ ~Has(r.has_what, A) /\ ~Has(r.stacks, A)
            /\ ~Has(r.processing, A) /\ A \notin r.nannies /\ ~Has(r.worker_queues, A)
            /\ \A k \in DOMAIN r.who_has : A \notin r.who_has[k]
            /\ \A k \in DOMAIN who_has : who_has[k] = {A} => ~Has(r.who_has, k)
            /\ \A k \in WorkOf(Cur, A) :
                  \/ Has(r.waiting, k)
                  \/ k \in InStacks(r.stacks) \cup InProcessing(r.processing)
                  \/ k \notin r.in_play


\* C20: update_graph raises an error to its caller whenever it admits a
\* runnable key while no worker is registered, or a runnable key whose
\* restrictions match no registered host and that is not in
\* loose_restrictions
C20_NoValidWorkerSurfaced ==
    \A dsk \in SUBSET Keys, keys \in SUBSET Keys : Submittable(dsk, keys) =>
        \A rs \in RestrictionMaps :
            LET r == update_graph(Cur, graph, dsk, keys, rs, {}, korder, worder)
            IN  (\E k \in AdmittedRunnable(Cur, dsk, keys) :
                     DOMAIN ncores = {} \/ Unsatisfiable(Cur, rs, {}, k))
                => r.err # NoErr


\* C21: when restart has returned nothing recorded before it remains (the
\* graph, the dependency maps, waiting, waiting_data, in_play, stacks,
\* processing, held_data, exceptions and exceptions_blame are empty), and
\* any graph submitted next is scheduled as on a fresh scheduler with the
\* same workers
C21_RestartDiscards ==
    Restarted =>
        /\ dask = {} /\ dependencies = EmptyMap /\ dependents = EmptyMap
        /\ waiting = EmptyMap /\ waiting_data = EmptyMap /\ in_play = {}
        /\ OnStacks = {} /\ BeingProcessed = {}
        /\ held_data = {} /\ exceptions = {} /\ exceptions_blame = EmptyMap
        /\ \A dsk \in SUBSET Keys, keys \in SUBSET Keys :
              (dsk # {} /\ keys # {} /\ keys \subseteq dsk
               /\ \A k \in dsk : graph[k] \subseteq dsk) =>
                 Scheduled(update_graph(Cur, graph, dsk, keys, EmptyMap, {}, korder, worder))
                   = Scheduled(update_graph(Fresh(Cur), graph, dsk, keys, EmptyMap, {}, korder, worder))


\* C22: when cleanup has returned, what it took from the scheduler inbox is
\* exactly one worker-finished acknowledgment per core, and every close
\* message it sent has been received by a dispatcher coroutine
C22_GracefulClose ==
    closing.returned =>
        /\ \A i \in DOMAIN closing.taken : closing.taken[i] = "worker-finished"
        /\ \A w \in DOMAIN worker_queues :
              \A i \in DOMAIN worker_queues[w] : worker_queues[w][i][1] # "close"


C24_WaitingExact ==
    \A k \in DOMAIN waiting :
        waiting[k] = {d \in GetOr(dependencies, k, {}) : d \notin InMemory}


\* C25: heal produces a valid state: applied to a state dict whose
\* dependencies and dependents are mutually inverse and whose in_memory is
\* any set of its keys, heal returns without an assertion failure, and no
\* key of its output is both released and in memory
C25_HealValid ==
    healrun.n >= 1 =>
        /\ healrun.once.err = NoErr
        /\ healrun.once.released \cap healrun.once.in_memory = {}


\* C26: mark_missing_data(missing, key=k, worker=w), reported by a task k
\* that is running on w for dependencies of k, leaves no key of missing in
\* who_has or has_what, takes k out of processing[w], leaves k in waiting
\* with waiting[k] = missing, and leaves every missing key in in_play and
\* either waiting or on a stack or in a processing set
C26_MissingDataPost ==
    \A w \in DOMAIN processing : \A k \in processing[w] :
    \A missing \in (SUBSET GetOr(dependencies, k, {})) \ {{}} :
        LET post(r) ==
                /\ \A m \in missing :
                      /\ GetOr(r.who_has, m, {}) = {}
                      /\ \A v \in DOMAIN r.has_what : m \notin r.has_what[v]
                      /\ m \in r.in_play
                      /\ \/ Has(r.waiting, m)
                         \/ \E v \in DOMAIN r.stacks : m \in WorkOf(r, v)
                /\ k \notin r.processing[w]
                /\ Has(r.waiting, k)
                /\ r.waiting[k] = missing
        IN  post(mark_missing_data(Cur, missing, k, w, korder, worder))


\* C27: update_graph creates waiting entries only for keys that are
\* reachable from the requested keys and were not in in_play; and
\* resubmitting a graph whose requested keys are all in in_play leaves
\* waiting, stacks, processing and the holders recorded in who_has unchanged
\* and puts no compute-task on a worker queue
C27_OutsideFrontierOnly ==
    \A dsk \in (SUBSET Keys) \ {{}} : \A keys \in (SUBSET dsk) \ {{}} :
        (\A k \in dsk : graph[k] \subseteq dsk \cup dask \cup held_data) =>
            LET step(S) == S \cup UNION {graph[k] : k \in S}
                reach == step(step(step(keys)))
                post(r) ==
                    /\ (DOMAIN r.waiting) \ (DOMAIN waiting) \subseteq reach \ in_play
                    /\ keys \subseteq in_play =>
                          /\ r.waiting = waiting
                          /\ r.stacks = stacks
                          /\ r.processing = processing
                          /\ \A k \in Keys : GetOr(r.who_has, k, {}) = GetOr(who_has, k, {})
                          /\ r.worker_queues = worker_queues
            IN  post(update_graph(Cur, graph, dsk, keys, EmptyMap, {}, korder, worder))


\* C28: between events, while at least one worker is registered, no key is
\* in waiting with an empty waiting set
C28_RunnableNotWaiting ==
    DOMAIN ncores # {} => \A k \in DOMAIN waiting : waiting[k] # {}


\* C29: the healing paths count a key as in memory iff its who_has set is
\* non-empty: after mark_missing_data a missing key waits on each of its
\* dependencies that no worker holds, and after the heal_state of
\* remove_worker a key of in_play that no worker holds is waiting or is on
\* a stack or in a processing set
C29_InMemoryDerived ==
    /\ \A missing \in (SUBSET (reported \cap DOMAIN dependencies)) \ {{}} :
          LET post(r) ==
                  r.err = NoErr =>
                      \A m \in missing : \A d \in dependencies[m] :
                          GetOr(r.who_has, d, {}) = {} =>
                              Has(r.waiting, m) /\ d \in r.waiting[m]
          IN  post(mark_missing_data(Cur, missing, "", "", korder, worder))
    /\ \A A \in DOMAIN processing :
          LET post(r) ==
                  r.err = NoErr =>
                      \A k \in r.in_play :
                          GetOr(r.who_has, k, {}) = {} =>
                              \/ Has(r.waiting, k)
                              \/ \E w \in DOMAIN r.stacks : k \in WorkOf(r, w)
          IN  post(remove_worker(Cur, A, TRUE, korder, worder))


\* C30: after ensure_occupied(w), stacks[w] is empty or processing[w] has at
\* least ncores[w] keys; what is left of the stack is its oldest part, the
\* keys taken are its most recently pushed ones, each is added to
\* processing[w] and is one compute-task on w's queue, in pop order; and no
\* other worker's stack, processing set or queue changes
C30_EnsureOccupiedPost ==
    \A w \in DOMAIN stacks :
        LET post(r) ==
                LET st == stacks[w]
                    n == Len(st) - Len(r.stacks[w])
                    moved == [i \in 1..n |-> st[Len(st) + 1 - i]]
                IN  /\ r.err = NoErr
                    /\ r.stacks[w] = <<>> \/ Cardinality(r.processing[w]) >= ncores[w]
                    /\ n >= 0
                    /\ r.stacks[w] = SubSeq(st, 1, Len(st) - n)
                    /\ r.processing[w] = processing[w] \cup Range(moved)
                    /\ r.worker_queues[w] =
                          worker_queues[w] \o [i \in 1..n |-> <<"compute-task", moved[i]>>]
                    /\ \A v \in (DOMAIN stacks) \ {w} :
                          /\ r.stacks[v] = stacks[v]
                          /\ r.processing[v] = processing[v]
                          /\ r.worker_queues[v] = worker_queues[v]
        IN  post(ensure_occupied(Cur, w))

\* C30: ensure_occupied has taken one key of a worker's stack into its
\* processing set and left an older key on the stack, all cores being busy
C30_Witness ==
    /\ Len(emitted) = 1
    /\ emitted[1][1] = "compute-task"
    /\ \E w \in DOMAIN stacks :
          /\ emitted[1][3] = w
          /\ emitted[1][2] \in processing[w]
          /\ stacks[w] # <<>>
          /\ Cardinality(processing[w]) >= ncores[w]

\* C31: when mark_task_finished(k) makes two dependents of k runnable and
\* places both on the same worker, the one of smaller keyorder enters
\* processing no later than the other: if the other is in the worker's
\* processing set afterwards, so is it, with its compute-task queued first;
\* and if both stay on the stack, it is nearer to the top
C31_PriorityAmongDependents ==
    \A w \in DOMAIN processing : \A k \in processing[w] :
        LET newly(a) == Has(waiting, a) /\ waiting[a] = {k}
            sent(r, a) == CHOOSE i \in DOMAIN r.out :
                              r.out[i][1] = "compute-task" /\ r.out[i][2] = a
            post(r) ==
                \A a, b \in GetOr(dependents, k, {}) :
                \A v \in DOMAIN r.stacks :
                    (/\ newly(a) /\ newly(b)
                     /\ TupleLess(OrderOf(keyorder, a), OrderOf(keyorder, b))
                     /\ r.err = NoErr
                     /\ {a, b} \subseteq WorkOf(r, v))
                        => /\ b \in r.processing[v] =>
                                 /\ a \in r.processing[v]
                                 /\ sent(r, a) < sent(r, b)
                           /\ {a, b} \subseteq Range(r.stacks[v]) =>
                                 Pos(r.stacks[v], b) < Pos(r.stacks[v], a)
        IN  post(mark_task_finished(Cur, k, w, SizeOf(k), korder, worder))


C34_DependenciesInverse ==
    /\ [](/\ \A k \in DOMAIN dependencies : \A d \in dependencies[k] :
                Has(dependents, d) /\ k \in dependents[d]
          /\ \A d \in DOMAIN dependents : \A k \in dependents[d] :
                Has(dependencies, k) /\ d \in dependencies[k])
    /\ [][\A k \in DOMAIN dependencies :
             Has(dependencies', k) /\ dependencies'[k] = dependencies[k]]_vars


\* C34: a graph of more than one key, all of them admitted before, has been
\* submitted again
C34_Witness ==
    /\ generation = 2
    /\ DOMAIN dependencies = Keys
    /\ \A k \in DOMAIN keyorder : keyorder[k][1] = 0


\* C35: when heal returns, a key is left in the stack or processing set it
\* was in iff it is not released, not in memory and all its dependencies
\* are in memory, the survivors of a stack keeping their order; no key left
\* in a stack or processing set has a waiting entry; and waiting_data has an
\* entry for exactly the keys that are not released, holding the dependents
\* that are neither released nor in memory
C35_HealSurvivors ==
    (healrun.n >= 1 /\ healrun.once.err = NoErr) =>
        LET I == healrun.input
            O == healrun.once
            keys == DOMAIN I.dependents
            runnable == {k \in keys : /\ k \notin O.released
                                      /\ k \notin I.in_memory
                                      /\ I.dependencies[k] \subseteq I.in_memory}
        IN  /\ \A w \in DOMAIN I.stacks :
                  O.stacks[w] = SeqFilter(I.stacks[w], runnable)
            /\ \A w \in DOMAIN I.processing :
                  O.processing[w] = I.processing[w] \cap runnable
            /\ DOMAIN O.stacks = DOMAIN I.stacks
            /\ DOMAIN O.processing = DOMAIN I.processing
            /\ \A k \in InStacks(O.stacks) \cup InProcessing(O.processing) :
                  ~Has(O.waiting, k)
            /\ DOMAIN O.waiting_data = keys \ O.released
            /\ \A k \in keys \ O.released :
                  O.waiting_data[k] = {d \in I.dependents[k] :
                                          d \notin O.released /\ d \notin I.in_memory}

\* C35: heal has returned, having taken a key that cannot run from a stack
\* or a processing set and left one that can run where it was
C35_Witness ==
    /\ healrun.n >= 1
    /\ healrun.once.err = NoErr
    /\ InStacks(healrun.once.stacks) \cup InProcessing(healrun.once.processing) # {}
    /\ (InStacks(healrun.input.stacks) \cup InProcessing(healrun.input.processing))
          \ (InStacks(healrun.once.stacks) \cup InProcessing(healrun.once.processing)) # {}


\* C36: no worker has a pending deletion of a key that who_has records on it
C36_DeletedNotHeld ==
    \A w \in DOMAIN deleted_keys : \A k \in deleted_keys[w] :
        ~(Has(who_has, k) /\ w \in who_has[k])


\* C37: each key occurs at most once across all workers' stacks and
\* processing sets taken together: never twice in one stack, never on two
\* workers, never both in a stack and in a processing set
C37_NoDuplicateScheduling ==
    /\ \A w \in DOMAIN stacks : \A i, j \in DOMAIN stacks[w] :
          stacks[w][i] = stacks[w][j] => i = j
    /\ \A w, v \in DOMAIN stacks :
          w # v => Range(stacks[w]) \cap Range(stacks[v]) = {}
    /\ \A w, v \in DOMAIN processing :
          w # v => processing[w] \cap processing[v] = {}
    /\ \A w \in DOMAIN stacks : \A v \in DOMAIN processing :
          Range(stacks[w]) \cap processing[v] = {}


\* C38: no registered worker runs more tasks than it has cores, and no more
\* compute-task messages than its cores are queued or in flight for it
C38_CoreLimit ==
    \A w \in DOMAIN ncores :
        /\ Cardinality(processing[w]) <= ncores[w]
        /\ Cardinality({i \in DOMAIN worker_queues[w] :
                           worker_queues[w][i][1] = "compute-task"})
             + SumOver([k \in Keys |-> inflight[<<w, k>>]], Keys) <= ncores[w]


\* C39: when a worker is removed and heal_state reports 'lost-key' for a
\* key, the key is in held_data and no remaining worker holds it
C39_LostKeyTruthful ==
    \A w \in DOMAIN processing :
        LET post(r) ==
                \A i \in DOMAIN r.out :
                    r.out[i][1] = "lost-key" =>
                        /\ r.out[i][2] \in held_data
                        /\ GetOr(who_has, r.out[i][2], {}) \ {w} = {}
        IN  post(remove_worker(Cur, w, TRUE, korder, worder))


\* C39: a worker has been removed and heal_state has reported a held key
\* that no remaining worker has in memory as lost
C39_Witness ==
    \E i \in DOMAIN emitted :
        /\ emitted[i][1] = "lost-key"
        /\ emitted[i][2] \in held_data
        /\ ~Has(who_has, emitted[i][2])


\* C40: when update_graph raises because no worker is registered, every key
\* it has made runnable is in waiting with an empty waiting set or on a
\* worker's stack afterwards, and every key of in_play is in waiting, on a
\* stack, in a processing set or in memory
C40_FailedAdmissionKeepsWork ==
    \A dsk \in (SUBSET Keys) \ {{}} : \A keys \in (SUBSET dsk) \ {{}} :
        (\A k \in dsk : graph[k] \subseteq dsk \cup dask \cup held_data) =>
            LET post(r) ==
                    r.err = "NoWorkers" =>
                        /\ \A k \in r.in_play \ in_play :
                              (\A d \in r.dependencies[k] : GetOr(r.who_has, d, {}) # {})
                                 => \/ Has(r.waiting, k) /\ r.waiting[k] = {}
                                    \/ k \in InStacks(r.stacks)
                        /\ \A k \in r.in_play :
                              \/ Has(r.waiting, k)
                              \/ k \in InStacks(r.stacks)
                              \/ k \in InProcessing(r.processing)
                              \/ GetOr(r.who_has, k, {}) # {}
            IN  post(update_graph(Cur, graph, dsk, keys, EmptyMap, {}, korder, worder))

====
